---- MODULE Spec2Model ----
(***************************************************************************)
(* State-machine model of llm_image_analyzer_mcp/core.py:                  *)
(* analyze_images_impl (the request orchestrator) and                      *)
(* _analyze_with_mistral (the OCR aggregator), with the helpers they call. *)
(*                                                                         *)
(* Conventions                                                             *)
(*   - a Python str is a sequence of one-character or token strings;       *)
(*   - an Optional[T] is a set with at most one element (None == {});      *)
(*   - a Python dict is a TLA+ function whose DOMAIN is its key set;       *)
(*   - the code between two awaits runs atomically (one asyncio loop), so  *)
(*     every action ends at an await, a return or a raise.                 *)
(***************************************************************************)
EXTENDS Integers, Sequences, FiniteSets, TLC

(***************************************************************************)
(* Bounds of the model.                                                    *)
(***************************************************************************)
MaxImages == 2

(***************************************************************************)
(* Optional values.                                                        *)
(***************************************************************************)
None == {}
Some(v) == {v}
Get(x) == CHOOSE v \in x : TRUE

(***************************************************************************)
(* Strings.                                                                *)
(***************************************************************************)
SeqsUpTo(S, n) == UNION {[1..k -> S] : k \in 0..n}

UpperChars == <<"A","B","C","D","E","F","G","H","I","J","K","L","M",
                "N","O","P","Q","R","S","T","U","V","W","X","Y","Z">>
LowerChars == <<"a","b","c","d","e","f","g","h","i","j","k","l","m",
                "n","o","p","q","r","s","t","u","v","w","x","y","z">>

\* str.lower() on one character
LowerChar(c) ==
    IF \E k \in 1..26 : UpperChars[k] = c
    THEN LowerChars[CHOOSE k \in 1..26 : UpperChars[k] = c]
    ELSE c

\* str.lower()
Lower(s) == [k \in 1..Len(s) |-> LowerChar(s[k])]

\* str.startswith(p)
StartsWith(s, p) == Len(s) >= Len(p) /\ SubSeq(s, 1, Len(p)) = p

\* p in s
Contains(s, p) ==
    \E k \in 1..(Len(s) - Len(p) + 1) : SubSeq(s, k, k + Len(p) - 1) = p

IsSpace(c) == c \in {" ", "\t", "\n"}

RECURSIVE LStrip(_)
LStrip(s) == IF s # <<>> /\ IsSpace(Head(s)) THEN LStrip(Tail(s)) ELSE s

RECURSIVE RStrip(_)
RStrip(s) ==
    IF s # <<>> /\ IsSpace(s[Len(s)]) THEN RStrip(SubSeq(s, 1, Len(s) - 1)) ELSE s

\* str.strip()
Strip(s) == RStrip(LStrip(s))

\* sep.join(items), items a sequence of strings
RECURSIVE Join(_, _)
Join(sep, items) ==
    IF items = <<>> THEN <<>>
    ELSE IF Len(items) = 1 THEN items[1]
    ELSE items[1] \o sep \o Join(sep, Tail(items))

\* string literals used by the code
AzurePrefix == <<"a","z","u","r","e",":">>
Gpt5Marker == <<"g","p","t","-","5">>
DefaultModelName == <<"a","z","u","r","e",":","g","p","t","-","5",".","2">>
DefaultMistralDeployment == <<"mistral-document-ai-2505">>

\* model names used as inputs
AzureGpt4o == <<"a","z","u","r","e",":","g","p","t","-","4","o">>
OpenAiGpt4o == <<"o","p","e","n","a","i",":","g","p","t","-","4","o">>
OpenAiGPT5 == <<"o","p","e","n","a","i",":","G","P","T","-","5">>

(***************************************************************************)
(* Image references.  A reference is the caller's string; the record keeps *)
(* the text (name) together with what the code reads off it: the scheme    *)
(* prefix, the path components and the suffix of the last component.       *)
(***************************************************************************)
UrlRef == [name |-> "https://h/swan.jpeg", scheme |-> "https://",
           parts |-> <<"h", "swan.jpeg">>, suffix |-> ".jpeg"]
LocalRef == [name |-> "proj/pic.PNG", scheme |-> "",
             parts |-> <<"proj", "pic.PNG">>, suffix |-> ".PNG"]
SvgRef == [name |-> "plan.svg", scheme |-> "",
           parts |-> <<"plan.svg">>, suffix |-> ".svg"]
Refs == {UrlRef, LocalRef, SvgRef}

\* _is_url
IsUrl(ref) == ref.scheme \in {"http://", "https://"}

\* path.suffix.lower()
Ext(ref) ==
    CASE ref.suffix \in {".PNG", ".png"} -> ".png"
      [] ref.suffix \in {".JPG", ".jpg"} -> ".jpg"
      [] ref.suffix \in {".JPEG", ".jpeg"} -> ".jpeg"
      [] ref.suffix \in {".GIF", ".gif"} -> ".gif"
      [] ref.suffix \in {".WEBP", ".webp"} -> ".webp"
      [] ref.suffix \in {".SVG", ".svg"} -> ".svg"
      [] OTHER -> ref.suffix

\* mime_type_map.get(ext, "image/jpeg")
MimeType(ext) ==
    CASE ext = ".jpg" -> "image/jpeg"
      [] ext = ".jpeg" -> "image/jpeg"
      [] ext = ".png" -> "image/png"
      [] ext = ".gif" -> "image/gif"
      [] ext = ".webp" -> "image/webp"
      [] OTHER -> "image/jpeg"

(***************************************************************************)
(* Exceptions and the outcome of a call: a value or a raised exception.    *)
(***************************************************************************)
Exc(type, msg) == [type |-> type, msg |-> msg]
\* val is the value returned when ok, the exception raised otherwise
Raise(e) == [ok |-> FALSE, val |-> e]
Return(v) == [ok |-> TRUE, val |-> v]

(***************************************************************************)
(* The environment's answers.                                              *)
(***************************************************************************)
\* what the HEAD request of _validate_url can do
HeadOutcomes ==
    { [kind |-> "response", status |-> 200, image |-> TRUE],
      [kind |-> "response", status |-> 200, image |-> FALSE],
      [kind |-> "response", status |-> 404, image |-> FALSE],
      [kind |-> "timeout", status |-> 0, image |-> FALSE],
      [kind |-> "request_error", status |-> 0, image |-> FALSE],
      [kind |-> "invalid_url", status |-> 0, image |-> FALSE] }

\* what the filesystem holds at the place a local reference names
FileStates == {"missing", "directory", "corrupt", "image"}

\* variant: the timeout of the HEAD request is not translated
ValidateUrlTimeoutEscapes(ref, head) ==
    CASE head.kind = "response" /\ head.status # 200 ->
            Raise(Exc("ValueError", <<"URL returned status ", "404", ": ", ref.name>>))
      [] head.kind = "response" /\ head.status = 200 -> Return(TRUE)
      [] head.kind = "timeout" -> Raise(Exc("ReadTimeout", <<>>))
      [] head.kind = "request_error" ->
            Raise(Exc("ValueError", <<"Failed to access URL: ", ref.name>>))
      [] OTHER -> Raise(Exc("InvalidURL", <<"Invalid URL: ", ref.name>>))

\* _validate_url
ValidateUrl(ref, head) ==
    CASE head.kind = "response" /\ head.status # 200 ->
            Raise(Exc("ValueError", <<"URL returned status ", "404", ": ", ref.name>>))
      [] head.kind = "response" /\ head.status = 200 -> Return(TRUE)
      [] head.kind = "timeout" ->
            Raise(Exc("ValueError", <<"Timeout while accessing URL: ", ref.name>>))
      [] head.kind = "request_error" ->
            Raise(Exc("ValueError", <<"Failed to access URL: ", ref.name>>))
      [] OTHER -> Raise(Exc("InvalidURL", <<"Invalid URL: ", ref.name>>))

ImageUrl(ref) == [kind |-> "ImageUrl", source |-> ref.name, media_type |-> ""]
BinaryContent(ref, media) ==
    [kind |-> "BinaryContent", source |-> ref.name, media_type |-> media]

\* _resolve_path_with_fallback as seen through the filesystem's answer
ResolveOutcome(ref, file) ==
    IF file = "missing"
    THEN Raise(Exc("FileNotFoundError", <<"Image not found at path: ", ref.name>>))
    ELSE Return(ref)

\* _convert_svg_to_png
ConvertSvgToPng(ref, file) ==
    IF file = "image"
    THEN Return(<<"png(", ref.name, ")">>)
    ELSE Raise(Exc("ValueError", <<"Failed to convert SVG to PNG: ", ref.name>>))

\* _prepare_image_for_pydantic, local branch
PrepareLocal(ref, file) ==
    IF ~ResolveOutcome(ref, file).ok THEN ResolveOutcome(ref, file)
    ELSE IF file = "directory"
    THEN Raise(Exc("ValueError", <<"Path is not a file: ", ref.name>>))
    ELSE IF Ext(ref) = ".svg"
    THEN IF ConvertSvgToPng(ref, file).ok
         THEN Return(BinaryContent(ref, "image/png"))
         ELSE ConvertSvgToPng(ref, file)
    ELSE IF file = "corrupt"
    THEN Raise(Exc("ValueError", <<"Invalid image file at ", ref.name>>))
    ELSE Return(BinaryContent(ref, MimeType(Ext(ref))))

\* _prepare_image_for_pydantic, URL branch after the HEAD request returned
PrepareUrl(ref, head) ==
    IF ValidateUrl(ref, head).ok THEN Return(ImageUrl(ref)) ELSE ValidateUrl(ref, head)

\* variant: the marker is looked up without lower()
IsGpt5ModelCaseSensitive(model_name) == Contains(model_name, Gpt5Marker)

\* _is_gpt5_model
IsGpt5Model(model_name) == Contains(Lower(model_name), Gpt5Marker)

(***************************************************************************)
(* Exception handling.                                                     *)
(***************************************************************************)
\* the exception classes the code and its boundaries raise; all derive from
\* Exception
ExceptionTypes ==
    {"ValueError", "FileNotFoundError", "InvalidURL", "UnidentifiedImageError",
     "IsADirectoryError", "UserError", "ModelHTTPError", "ReadTimeout",
     "JSONDecodeError", "AttributeError"}

\* variant: the envelope of an exception has no debug_mode field
FormatErrorNoDebugMode(e, debug) ==
    IF debug
    THEN [error |-> e.msg, error_type |-> e.type,
          traceback |-> <<"Traceback: ", e.type>>]
    ELSE [error |-> e.msg, error_type |-> e.type]

\* _format_error
FormatError(e, debug) ==
    IF debug
    THEN [error |-> e.msg, error_type |-> e.type, debug_mode |-> debug,
          traceback |-> <<"Traceback: ", e.type>>]
    ELSE [error |-> e.msg, error_type |-> e.type, debug_mode |-> debug]

\* _format_error: the record handed to logger.error
ErrorLogRecord(e, debug) ==
    IF debug
    THEN <<"Tool error with traceback:\n", "Traceback: ", e.type>>
    ELSE <<"Tool error: ", e.type, ": ">> \o e.msg

\* variant: the handler catches only the errors the helpers raise on purpose
TopLevelCatchesValueErrors(e) == e.type \in {"ValueError", "FileNotFoundError"}

\* analyze_images_impl: "except Exception as e" around the whole body
TopLevelCatches(e) == e.type \in ExceptionTypes

\* variant: the per-image handler catches ValueError only
PerImageCatchesValueError(e) == e.type = "ValueError"

\* _analyze_with_mistral: "except Exception as e" around one image
PerImageCatches(e) == e.type \in ExceptionTypes

\* _analyze_with_mistral: "except Exception as e" around the text extraction
ExtractCatches(e) == e.type \in ExceptionTypes

(***************************************************************************)
(* analyze_images_impl: the decisions of the orchestrator.                 *)
(***************************************************************************)
Falsy(opt) == opt = None \/ Get(opt) = <<>>

\* os.getenv(name, default)
Getenv(env, name, default) == IF env[name] = None THEN default ELSE Get(env[name])

\* lines 288-294: the four os.getenv calls at the head of analyze_images_impl
ReadConfiguration(env) ==
    [default_model |-> Getenv(env, "MODEL", DefaultModelName),
     azure_endpoint |-> env["AZURE_OPENAI_ENDPOINT"],
     azure_api_key |-> env["AZURE_OPENAI_API_KEY"],
     mistral_deployment |->
         Getenv(env, "AZURE_MISTRAL_DEPLOYMENT", DefaultMistralDeployment)]

\* line 24: DEBUG_MODE as computed when the module is imported
ImportDebugMode(env) ==
    Lower(Getenv(env, "MCP_DEBUG", <<"f","a","l","s","e">>))
        \in {<<"t","r","u","e">>, <<"1">>, <<"y","e","s">>}

\* isinstance(image_paths, str) -> [image_paths]; the argument is either
\* one string (is_str, the string is items[1]) or a list of strings (items)
NormalizeImagePaths(image_paths) ==
    IF image_paths.is_str THEN <<image_paths.items[1]>> ELSE image_paths.items

PromptEmptyError ==
    [error |-> <<"Prompt cannot be empty.">>, error_type |-> "ValueError"]
NoImagesError ==
    [error |-> <<"At least one image path is required.">>, error_type |-> "ValueError"]
InvalidEffortError(effort) ==
    [error |-> <<"Invalid reasoning_effort: ", effort>>, error_type |-> "ValueError"]
AzureNotConfiguredError ==
    [error |-> <<"Azure OpenAI not configured.">>, error_type |-> "ConfigurationError"]
MistralNotConfiguredError ==
    [error |-> <<"Azure configuration required for Mistral Document AI.">>,
     error_type |-> "ConfigurationError"]
NoResultsError ==
    [error |-> <<"No results from Mistral Document AI">>, error_type |-> "APIError"]

\* variant: the image list is checked before the prompt
ValidationErrorListFirst(prompt, paths, effort) ==
    IF paths = <<>> \/ Len(paths) = 0 THEN Some(NoImagesError)
    ELSE IF prompt = <<>> \/ Strip(prompt) = <<>> THEN Some(PromptEmptyError)
    ELSE IF effort \notin {"low", "medium", "high"} THEN Some(InvalidEffortError(effort))
    ELSE None

\* the three input checks, in the order of the code; None when all pass
ValidationError(prompt, paths, effort) ==
    IF prompt = <<>> \/ Strip(prompt) = <<>> THEN Some(PromptEmptyError)
    ELSE IF paths = <<>> \/ Len(paths) = 0 THEN Some(NoImagesError)
    ELSE IF effort \notin {"low", "medium", "high"} THEN Some(InvalidEffortError(effort))
    ELSE None

\* model or default_model
EffectiveModel(model, default_model) ==
    IF Falsy(model) THEN default_model ELSE Get(model)

\* variant: the configuration is required whatever the provider prefix
AzureConfigMissingAnyProvider(name, endpoint, key) == Falsy(endpoint) \/ Falsy(key)

\* the Azure configuration check of the standard path
AzureConfigMissing(name, endpoint, key) ==
    StartsWith(name, AzurePrefix) /\ (Falsy(endpoint) \/ Falsy(key))

\* variant: only the key is required
MistralConfigMissingKeyOnly(endpoint, key) == Falsy(key)

\* the configuration check of _analyze_with_mistral
MistralConfigMissing(endpoint, key) == Falsy(endpoint) \/ Falsy(key)

EmptyDict == [k \in {} |-> 0]

\* model_settings_kwargs
ModelSettingsKwargs(name, max_tokens) ==
    IF max_tokens # None
    THEN IF IsGpt5Model(name)
         THEN [max_completion_tokens |-> Get(max_tokens)]
         ELSE [max_tokens |-> Get(max_tokens)]
    ELSE EmptyDict

\* variant: gather(..., return_exceptions=True) sets no exception
FirstExceptionSwallowed(current, out) == current

\* variant: a later failure replaces the one set before
FirstExceptionLast(current, out) == IF ~out.ok THEN Some(out.val) ELSE current

\* asyncio.gather without return_exceptions: the first exception raised by
\* a child is set on gather's future, later ones are left alone
FirstException(current, out) ==
    IF current = None /\ ~out.ok THEN Some(out.val) ELSE current

\* variant: the results in the order the preparations finished
GatherResultsByCompletion(tasks, completion) ==
    [i \in 1..Len(tasks) |-> Get(tasks[completion[i]].out).val]

\* what asyncio.gather hands back: the results by position of the awaitable
GatherResults(tasks, completion) ==
    [i \in 1..Len(tasks) |-> Get(tasks[i].out).val]

\* [prompt] + images
MessageParts(prompt, images) == <<prompt>> \o images

\* variant: agent.run is called a second time with the same message
AgentRunTwice(calls, parts) == calls \o <<parts, parts>>

\* await agent.run(message_parts): the one call of the model boundary
AgentRun(calls, parts) == Append(calls, parts)

(***************************************************************************)
(* Schema compilation (the output_schema branch of the agent creation).    *)
(***************************************************************************)
\* bool(output_schema)
SchemaGiven(schema) == schema # None /\ DOMAIN Get(schema) # {}

\* variant: integer fields are compiled like number fields
FieldTypeIntegerAsNumber(field_def) ==
    IF "type" \notin DOMAIN field_def THEN "str"
    ELSE CASE field_def["type"] = "number" -> "float"
           [] field_def["type"] = "integer" -> "float"
           [] field_def["type"] = "boolean" -> "bool"
           [] field_def["type"] = "array" -> "list"
           [] field_def["type"] = "object" -> "dict"
           [] OTHER -> "str"

\* field_type
FieldType(field_def) ==
    IF "type" \notin DOMAIN field_def THEN "str"
    ELSE CASE field_def["type"] = "number" -> "float"
           [] field_def["type"] = "integer" -> "int"
           [] field_def["type"] = "boolean" -> "bool"
           [] field_def["type"] = "array" -> "list"
           [] field_def["type"] = "object" -> "dict"
           [] OTHER -> "str"

SchemaRequired(schema) ==
    IF "required" \in DOMAIN schema
    THEN {schema["required"][k] : k \in 1..Len(schema["required"])}
    ELSE {}

\* fields of DynamicResultModel
CompileSchema(schema) ==
    IF "properties" \in DOMAIN schema
    THEN [f \in DOMAIN schema["properties"] |->
            [type |-> FieldType(schema["properties"][f]),
             required |-> f \in SchemaRequired(schema)]]
    ELSE EmptyDict

\* output_type handed to Agent(...)
OutputType(schema) ==
    IF SchemaGiven(schema) THEN Some(CompileSchema(Get(schema))) ELSE None

(***************************************************************************)
(* Response assembly.                                                      *)
(***************************************************************************)
UsageFields == {"prompt_tokens", "completion_tokens", "total_tokens"}

\* variant: the three fields are always filled in, 0 when not reported
UsageDictAllFields(usage) ==
    [f \in UsageFields |-> IF f \in DOMAIN Get(usage) THEN Get(usage)[f] ELSE 0]

\* usage_dict: the attributes of result.usage that exist, copied
UsageDict(usage) == [f \in (DOMAIN Get(usage) \cap UsageFields) |-> Get(usage)[f]]

\* variant: the structured branch forgets the data key
BuildResponseNoData(schema, name, run) ==
    LET base == IF SchemaGiven(schema)
                THEN [model |-> name]
                ELSE [analysis |-> run.output, model |-> name]
    IN IF run.usage # None /\ DOMAIN UsageDict(run.usage) # {}
       THEN base @@ [usage |-> UsageDict(run.usage)]
       ELSE base

\* variant: the output is always returned under the analysis key
BuildResponseAlwaysAnalysis(schema, name, run) ==
    LET base == [analysis |-> run.output, model |-> name]
    IN IF run.usage # None /\ DOMAIN UsageDict(run.usage) # {}
       THEN base @@ [usage |-> UsageDict(run.usage)]
       ELSE base

\* response
BuildResponse(schema, name, run) ==
    LET base == IF SchemaGiven(schema)
                THEN [data |-> run.output, model |-> name]
                ELSE [analysis |-> run.output, model |-> name]
    IN IF run.usage # None /\ DOMAIN UsageDict(run.usage) # {}
       THEN base @@ [usage |-> UsageDict(run.usage)]
       ELSE base

(***************************************************************************)
(* _analyze_with_mistral: one image.                                       *)
(***************************************************************************)
DataUrl(media, ref) == <<"data:", media, ";base64,", ref.name>>

\* the local branch of the loop body: the document URL or the exception
MistralLocalDocument(ref, file) ==
    IF ~ResolveOutcome(ref, file).ok THEN ResolveOutcome(ref, file)
    ELSE IF Ext(ref) = ".svg"
    THEN IF ConvertSvgToPng(ref, file).ok
         THEN Return(DataUrl("image/png", ref))
         ELSE ConvertSvgToPng(ref, file)
    ELSE IF file = "directory"
    THEN Raise(Exc("IsADirectoryError", <<"Is a directory: ", ref.name>>))
    ELSE IF file = "corrupt"
    THEN Raise(Exc("UnidentifiedImageError", <<"cannot identify image file ", ref.name>>))
    ELSE Return(DataUrl(MimeType(Ext(ref)), ref))

\* what the POST to the OCR endpoint can do
Page(markdown) == [markdown |-> markdown]
OcrBody(type, pages) == [type |-> type, pages |-> pages]
OcrResponse(kind, status, json, body) ==
    [kind |-> kind, status |-> status, json |-> json, body |-> body]
OcrResponses ==
    { OcrResponse("timeout", 0, FALSE, OcrBody("none", None)),
      OcrResponse("http", 500, FALSE, OcrBody("none", None)),
      OcrResponse("http", 200, FALSE, OcrBody("none", None)),
      OcrResponse("http", 200, TRUE, OcrBody("list", None)),
      OcrResponse("http", 200, TRUE, OcrBody("dict", None)),
      OcrResponse("http", 200, TRUE, OcrBody("dict", Some(<<>>))),
      OcrResponse("http", 200, TRUE, OcrBody("dict", Some(<<Page(None), Page(Some(<<>>))>>))),
      OcrResponse("http", 200, TRUE,
                  OcrBody("dict", Some(<<Page(Some(<<"T1">>)), Page(None), Page(Some(<<"T2">>))>>))) }

Section(ref, body) == <<"=== ", ref.name, " ===\n">> \o body
ErrorMarker(msg) == <<"[Error: ">> \o msg \o <<"]">>
ExtractErrorMarker(msg) == <<"[Error extracting text: ">> \o msg \o <<"]">>
NoTextMarker(ref) == <<"[No text extracted from ", ref.name, "]">>

\* page.get("markdown", "") of every page, the non-empty ones kept
RECURSIVE PageTexts(_)
PageTexts(pages) ==
    IF pages = <<>> THEN <<>>
    ELSE IF Falsy(Head(pages).markdown) THEN PageTexts(Tail(pages))
    ELSE <<Get(Head(pages).markdown)>> \o PageTexts(Tail(pages))

\* variant: an empty text is kept as it is
OcrTextNoMarker(ref, body) ==
    LET pages == IF body.pages = None THEN <<>> ELSE Get(body.pages)
    IN IF pages # <<>> THEN Join(<<"\n\n">>, PageTexts(pages)) ELSE <<>>

\* ocr_text of a parsed response body
OcrText(ref, body) ==
    LET pages == IF body.pages = None THEN <<>> ELSE Get(body.pages)
        text == IF pages # <<>> THEN Join(<<"\n\n">>, PageTexts(pages)) ELSE <<>>
    IN IF text = <<>> THEN NoTextMarker(ref) ELSE text

\* the text extraction block: the section, or the exception it lets through
ExtractSection(ref, body) ==
    IF body.type # "dict"
    THEN LET e == Exc("AttributeError", <<"'list' object has no attribute 'get'">>)
         IN IF ExtractCatches(e)
            THEN Return(Section(ref, ExtractErrorMarker(e.msg)))
            ELSE Raise(e)
    ELSE Return(Section(ref, OcrText(ref, body)))

\* variant: the non-200 branch lacks its continue and falls through to the
\* text extraction, which records a second section for the same image
PostOutcomeNoContinue(ref, resp) ==
    IF resp.kind = "timeout" THEN Raise(Exc("ReadTimeout", <<>>))
    ELSE IF resp.status # 200
    THEN Return(Section(ref, ErrorMarker(<<"HTTP ", "500", ": ", "body">>))
                \o <<"\n\n">> \o Section(ref, NoTextMarker(ref)))
    ELSE IF ~resp.json
    THEN Raise(Exc("JSONDecodeError", <<"Expecting value">>))
    ELSE ExtractSection(ref, resp.body)

\* from the response of the POST to the section appended, or the exception
PostOutcome(ref, resp) ==
    IF resp.kind = "timeout" THEN Raise(Exc("ReadTimeout", <<>>))
    ELSE IF resp.status # 200
    THEN Return(Section(ref, ErrorMarker(<<"HTTP ", "500", ": ", "body">>)))
    ELSE IF ~resp.json
    THEN Raise(Exc("JSONDecodeError", <<"Expecting value">>))
    ELSE ExtractSection(ref, resp.body)

\* how a failed URL validation is classified in the history
HeadClass(head) == IF head.kind = "timeout" THEN "head_timeout" ELSE "prepare_failed"

\* how the outcome of one image is classified in the history
PostClass(resp) ==
    IF resp.kind = "timeout" THEN "call_timeout"
    ELSE IF resp.status # 200 THEN "http_error"
    ELSE IF ~resp.json THEN "call_failed"
    ELSE IF resp.body.type # "dict" THEN "parse_failed"
    ELSE IF PageTexts(IF resp.body.pages = None THEN <<>> ELSE Get(resp.body.pages)) = <<>>
    THEN "no_text"
    ELSE "text"

\* the combined analysis text
CombinedText(prompt, results) ==
    IF prompt # <<>> /\ Strip(prompt) # <<>>
    THEN <<"User request: ">> \o prompt \o <<"\n\n">> \o Join(<<"\n\n">>, results)
    ELSE Join(<<"\n\n">>, results)

\* the value _analyze_with_mistral returns after the loop
MistralResult(prompt, results, deployment) ==
    IF results # <<>>
    THEN [analysis |-> CombinedText(prompt, results),
          model |-> <<"mistral:">> \o deployment]
    ELSE NoResultsError

(***************************************************************************)
(* Inputs.                                                                 *)
(***************************************************************************)
\* Requests with one reference (or none) vary every argument; requests with
\* a list of references vary what the fan-out and the OCR loop depend on.
Prompts == {<<>>, <<" ">>, <<" ", "a">>}
ListRefs == {UrlRef, LocalRef}
Models == {None, Some(AzureGpt4o), Some(OpenAiGPT5)}
TokenLimits == {None, Some(0), Some(500)}
Efforts == {"low", "medium", "high", "invalid"}
ProductSchema ==
    [properties |-> [item_name |-> [type |-> "string"],
                     count |-> [type |-> "integer"],
                     note |-> EmptyDict],
     required |-> <<"item_name", "ghost">>]
Schemas == {None, Some(EmptyDict), Some(ProductSchema)}
SingleRequests ==
    [prompt : Prompts,
     image_paths : {[is_str |-> TRUE, items |-> <<r>>] : r \in Refs}
                   \cup {[is_str |-> FALSE, items |-> <<>>]},
     model : Models, max_tokens : TokenLimits, reasoning_effort : Efforts,
     output_schema : Schemas, use_mistral : BOOLEAN]
ListRequests ==
    [prompt : {<<" ", "a">>},
     image_paths : {[is_str |-> FALSE, items |-> l] :
                        l \in SeqsUpTo(ListRefs, MaxImages) \ {<<>>}},
     model : {None}, max_tokens : {None}, reasoning_effort : {"high"},
     output_schema : {None, Some(ProductSchema)}, use_mistral : BOOLEAN]
Requests == SingleRequests \cup ListRequests
Environments ==
    [MODEL : {None, Some(OpenAiGpt4o)},
     AZURE_OPENAI_ENDPOINT : {None, Some(<<"https://r.cognitiveservices.azure.com/">>)},
     AZURE_OPENAI_API_KEY : {None, Some(<<>>), Some(<<"secret">>)},
     AZURE_MISTRAL_DEPLOYMENT : {None}]

\* what agent.run can do: raise, or return an output with or without usage
\* result.usage: missing or falsy (None), or an object with some attributes
UsageReports ==
    {None, Some(EmptyDict), Some([requests |-> 1]), Some([total_tokens |-> 12]),
     Some([prompt_tokens |-> 5, completion_tokens |-> 7, total_tokens |-> 12,
           requests |-> 1])}
RunOutput(output_type) ==
    IF output_type = None THEN <<"It is a swan.">> ELSE <<"DynamicResult(...)">>

(***************************************************************************)
(* State.                                                                  *)
(***************************************************************************)
VARIABLES
    environ,        \* the process environment (os.environ)
    startup_environ, \* the process environment when the module was imported
    DEBUG_MODE,     \* module constant, read from MCP_DEBUG at import
    req,            \* the arguments of the call
    pc,             \* where analyze_images_impl is
    cfg,            \* default_model, azure_endpoint, azure_api_key, mistral_deployment
    image_paths,    \* the normalised list
    model_name,
    tasks,          \* the preparations handed to asyncio.gather
    completion,     \* indices of the preparations in the order they finished
    gather_exc,     \* the first exception set on gather's future
    message_parts,
    model_settings_kwargs,
    output_type,
    all_results,    \* _analyze_with_mistral: sections so far
    ocr_i,          \* _analyze_with_mistral: position of the loop
    ocr_wait,       \* _analyze_with_mistral: the await the loop is suspended at
    ocr_log,        \* history: how each image of the loop ended
    run_result,     \* result of agent.run: the output and the usage reported
    result,         \* the envelope returned to the caller
    raised,         \* the exception propagated to the caller
    log,            \* history: the records _format_error hands to logger.error
    head_requests,  \* history: HEAD requests issued (positions)
    file_accesses,  \* history: local paths resolved and read (positions)
    model_calls,    \* history: messages handed to agent.run
    ocr_calls       \* history: POSTs to the OCR endpoint (positions)

\* one call of _resolve_path_with_fallback
VARIABLES
    fs,             \* the filesystem: regular files and symbolic links
    image_path,     \* the argument of the call
    resolver_pc,    \* where _resolve_path_with_fallback is
    expanded_path,  \* path = Path(image_path).expanduser()
    first_attempt,
    second_attempt,
    cwd_reads,      \* history: number of calls of Path.cwd()
    exists_calls,   \* history: the paths exists() was asked about
    resolved        \* the path returned or the exception raised

\* one compilation of an output_schema into the fields of DynamicResultModel
VARIABLES
    output_schema,  \* the argument
    compiler_pc,    \* where the agent creation is
    result_model    \* output_type of the agent: the fields, or None for text

\* one call of the tool of server.py next to one call of analyze_images_impl
\* with the same arguments, in the same world
VARIABLES
    world,          \* what the filesystem, the network and the model answer
    core_envelope,  \* what analyze_images_impl returned
    tool_outcome    \* what the call of the tool gave

tool_vars == <<world, core_envelope, tool_outcome>>

compiler_vars == <<output_schema, compiler_pc, result_model>>

resolver_vars == <<fs, image_path, resolver_pc, expanded_path, first_attempt,
                   second_attempt, cwd_reads, exists_calls, resolved>>

orchestrator_vars ==
    <<environ, startup_environ, DEBUG_MODE, req, pc, cfg, image_paths, model_name, tasks,
      completion, gather_exc, message_parts, model_settings_kwargs,
      output_type, all_results, ocr_i, ocr_wait, ocr_log, run_result, result, raised, log,
      head_requests, file_accesses, model_calls, ocr_calls, tool_vars>>

vars == <<orchestrator_vars, resolver_vars, compiler_vars>>

NoEnvelope == [pending |-> TRUE]
NoConfig == [default_model |-> <<>>, azure_endpoint |-> None,
             azure_api_key |-> None, mistral_deployment |-> <<>>]
NewTask == [st |-> "new", out |-> None]

\* variant: the images are prepared before the Azure configuration is checked
StandardPathGatherFirst == <<"gather", "azure_check", "build", "run">>

\* the statements of the standard path and of the OCR path, in program order
StandardPath == <<"azure_check", "gather", "build", "run">>

\* variant: use_mistral is ignored, the request takes the standard path
MistralPathIgnored == <<"azure_check", "gather", "build", "run">>

MistralPath == <<"mistral_config", "ocr_loop">>

\* the statement after step in path, "done" after the last
After(path, step) ==
    LET k == CHOOSE j \in 1..Len(path) : path[j] = step
    IN IF k < Len(path) THEN path[k + 1] ELSE "done"

\* no call of _resolve_path_with_fallback is under way
NoFiles == [files |-> {}, links |-> {}]
ResolverIdle ==
    /\ fs = NoFiles
    /\ image_path = [name |-> <<>>, parts |-> <<>>]
    /\ resolver_pc = "idle"
    /\ expanded_path = <<>>
    /\ first_attempt = None
    /\ second_attempt = None
    /\ cwd_reads = 0
    /\ exists_calls = <<>>
    /\ resolved = None

\* no call of the tool of server.py is compared
NoWorld == [idle |-> TRUE]
ToolIdle ==
    /\ world = NoWorld
    /\ core_envelope = NoEnvelope
    /\ tool_outcome = None

\* no schema is being compiled
CompilerIdle ==
    /\ output_schema = None
    /\ compiler_pc = "idle"
    /\ result_model = None

\* analyze_images_impl is called: nothing of the request has happened yet
RequestStart ==
    /\ pc = "start"
    /\ cfg = NoConfig
    /\ image_paths = <<>>
    /\ model_name = <<>>
    /\ tasks = <<>>
    /\ completion = <<>>
    /\ gather_exc = None
    /\ message_parts = <<>>
    /\ model_settings_kwargs = EmptyDict
    /\ output_type = None
    /\ all_results = <<>>
    /\ ocr_i = 1
    /\ ocr_wait = "none"
    /\ ocr_log = <<>>
    /\ run_result = None
    /\ result = NoEnvelope
    /\ raised = None
    /\ log = <<>>
    /\ head_requests = <<>>
    /\ file_accesses = <<>>
    /\ model_calls = <<>>
    /\ ocr_calls = <<>>

Init ==
    /\ environ \in Environments
    /\ startup_environ = environ
    /\ DEBUG_MODE \in BOOLEAN
    /\ req \in Requests
    /\ RequestStart
    /\ ToolIdle
    /\ ResolverIdle
    /\ CompilerIdle

\* return envelope
ReturnEnvelope(env) ==
    /\ result' = env
    /\ raised' = raised
    /\ log' = log
    /\ pc' = "done"

\* an exception reaches the try block of analyze_images_impl
Propagate(e) ==
    /\ pc' = "done"
    /\ IF TopLevelCatches(e)
       THEN /\ result' = FormatError(e, DEBUG_MODE)
            /\ log' = Append(log, ErrorLogRecord(e, DEBUG_MODE))
            /\ raised' = raised
       ELSE result' = result /\ log' = log /\ raised' = Some(e)

Continue(step) ==
    /\ pc' = step
    /\ UNCHANGED <<result, raised, log>>

(***************************************************************************)
(* analyze_images_impl, standard path.                                     *)
(***************************************************************************)
\* what no statement of analyze_images_impl assigns
inputs ==
    <<environ, startup_environ, DEBUG_MODE, req, resolver_vars, compiler_vars, tool_vars>>
ocr_state == <<all_results, ocr_i, ocr_wait, ocr_log, ocr_calls>>
build_state == <<message_parts, model_settings_kwargs, output_type, model_calls>>
gather_state == <<tasks, completion, gather_exc, head_requests, file_accesses>>

\* lines 287-328: read the configuration, validate, choose the path
Validate ==
    /\ pc = "start"
    /\ cfg' = ReadConfiguration(environ)
    /\ LET paths == NormalizeImagePaths(req.image_paths)
           err == ValidationError(req.prompt, paths, req.reasoning_effort)
       IN /\ image_paths' = paths
          /\ IF err # None
             THEN ReturnEnvelope(Get(err))
             ELSE Continue(IF req.use_mistral THEN MistralPath[1] ELSE StandardPath[1])
    /\ UNCHANGED <<inputs, run_result, model_name, gather_state, build_state, ocr_state>>

\* lines 330-344: the effective model and the Azure configuration check
AzureCheck ==
    /\ pc = "azure_check"
    /\ model_name' = EffectiveModel(req.model, cfg.default_model)
    /\ IF AzureConfigMissing(model_name', cfg.azure_endpoint, cfg.azure_api_key)
       THEN ReturnEnvelope(AzureNotConfiguredError)
       ELSE Continue(After(StandardPath, "azure_check"))
    /\ UNCHANGED <<inputs, run_result, cfg, image_paths, gather_state, build_state, ocr_state>>

\* lines 346-350: one preparation per reference is handed to asyncio.gather
GatherCall ==
    /\ pc = "gather"
    /\ tasks' = [i \in 1..Len(image_paths) |-> NewTask]
    /\ Continue("gather_wait")
    /\ UNCHANGED <<inputs, run_result, cfg, image_paths, model_name, completion, gather_exc,
                   head_requests, file_accesses, build_state, ocr_state>>

AllStarted == \A j \in 1..Len(tasks) : tasks[j].st # "new"
AllFinished == \A j \in 1..Len(tasks) : tasks[j].st \in {"done", "failed"}

\* a preparation finished with outcome out
Finish(i, out) ==
    /\ tasks' = [tasks EXCEPT ![i] = [st |-> IF out.ok THEN "done" ELSE "failed",
                                      out |-> Some(out)]]
    /\ completion' = Append(completion, i)
    /\ gather_exc' = FirstException(gather_exc, out)

\* _prepare_image_for_pydantic up to its first await: the tasks take their
\* first step in the order gather created them
TaskStart(i) ==
    /\ i \in 1..Len(tasks)
    /\ tasks[i].st = "new"
    /\ \A j \in 1..(i - 1) : tasks[j].st # "new"
    /\ IF IsUrl(image_paths[i])
       THEN /\ head_requests' = Append(head_requests, i)
            /\ tasks' = [tasks EXCEPT ![i].st = "head"]
            /\ UNCHANGED <<completion, gather_exc, file_accesses>>
       ELSE /\ file_accesses' = Append(file_accesses, i)
            /\ \E file \in FileStates : Finish(i, PrepareLocal(image_paths[i], file))
            /\ UNCHANGED head_requests
    /\ UNCHANGED <<inputs, run_result, pc, cfg, image_paths, model_name, result, raised, log,
                   build_state, ocr_state>>

\* _prepare_image_for_pydantic resumes when its HEAD request is answered
HeadReturn(i) ==
    /\ i \in 1..Len(tasks)
    /\ tasks[i].st = "head"
    /\ AllStarted
    /\ \E head \in HeadOutcomes : Finish(i, PrepareUrl(image_paths[i], head))
    /\ UNCHANGED <<inputs, run_result, pc, cfg, image_paths, model_name, result, raised, log,
                   head_requests, file_accesses, build_state, ocr_state>>

\* lines 348-353: the await of gather resumes, with the results or with the
\* first exception
GatherResume ==
    /\ pc = "gather_wait"
    /\ AllStarted
    /\ gather_exc # None \/ AllFinished
    /\ IF gather_exc # None
       THEN Propagate(Get(gather_exc)) /\ UNCHANGED message_parts
       ELSE /\ message_parts' = MessageParts(req.prompt, GatherResults(tasks, completion))
            /\ Continue(After(StandardPath, "gather"))
    /\ UNCHANGED <<inputs, run_result, cfg, image_paths, model_name, gather_state,
                   model_settings_kwargs, output_type, model_calls, ocr_state>>

\* lines 355-423: settings, output type, agent; agent.run is called
Build ==
    /\ pc = "build"
    /\ model_settings_kwargs' = ModelSettingsKwargs(model_name, req.max_tokens)
    /\ output_type' = OutputType(req.output_schema)
    /\ \E agent_ok \in BOOLEAN :
          IF agent_ok
          THEN /\ model_calls' = AgentRun(model_calls, message_parts)
               /\ Continue(After(StandardPath, "build"))
          ELSE /\ Propagate(Exc("UserError", <<"Unknown model">>))
               /\ UNCHANGED model_calls
    /\ UNCHANGED <<inputs, run_result, cfg, image_paths, model_name, gather_state,
                   message_parts, ocr_state>>

\* lines 423-457: agent.run returns or raises; the response is assembled
ModelReturn ==
    /\ pc = "run"
    /\ \/ /\ Propagate(Exc("ModelHTTPError", <<"status_code: 429">>))
          /\ UNCHANGED run_result
       \/ \E usage \in UsageReports :
             /\ run_result' = Some([output |-> RunOutput(output_type), usage |-> usage])
             /\ ReturnEnvelope(BuildResponse(req.output_schema, model_name,
                                            Get(run_result')))
    /\ UNCHANGED <<inputs, cfg, image_paths, model_name, gather_state,
                   build_state, ocr_state>>

(***************************************************************************)
(* _analyze_with_mistral.                                                  *)
(***************************************************************************)
\* lines 485-506: the configuration check, then the loop is entered
MistralConfig ==
    /\ pc = "mistral_config"
    /\ IF MistralConfigMissing(cfg.azure_endpoint, cfg.azure_api_key)
       THEN ReturnEnvelope(MistralNotConfiguredError)
       ELSE Continue(After(MistralPath, "mistral_config"))
    /\ UNCHANGED <<inputs, run_result, cfg, image_paths, model_name, gather_state,
                   build_state, ocr_state>>

\* the section of image ocr_i is appended and the loop moves on
AppendSection(section, class) ==
    /\ all_results' = Append(all_results, section)
    /\ ocr_log' = Append(ocr_log, class)
    /\ ocr_i' = ocr_i + 1
    /\ ocr_wait' = "none"
    /\ UNCHANGED <<pc, result, raised, log>>

\* an exception is raised inside the try block of image ocr_i
ImageRaises(e, class) ==
    IF PerImageCatches(e)
    THEN AppendSection(Section(image_paths[ocr_i], ErrorMarker(e.msg)), class)
    ELSE /\ Propagate(e)
         /\ ocr_log' = Append(ocr_log, class)
         /\ ocr_wait' = "none"
         /\ UNCHANGED <<all_results, ocr_i>>

\* variant: the POST is sent without being awaited and the loop moves on
PostSentNotAwaited ==
    /\ ocr_calls' = Append(ocr_calls, ocr_i)
    /\ ocr_wait' = "none"
    /\ ocr_i' = ocr_i + 1
    /\ UNCHANGED <<pc, result, raised, log, all_results, ocr_log>>

\* variant: the POST of an image is sent twice
PostSentTwice ==
    /\ ocr_calls' = ocr_calls \o <<ocr_i, ocr_i>>
    /\ ocr_wait' = "post"
    /\ UNCHANGED <<pc, result, raised, log, all_results, ocr_i, ocr_log>>

\* lines 553-570: the POST to the OCR endpoint is sent
PostSent ==
    /\ ocr_calls' = Append(ocr_calls, ocr_i)
    /\ ocr_wait' = "post"
    /\ UNCHANGED <<pc, result, raised, log, all_results, ocr_i, ocr_log>>

\* lines 508-570: the loop takes the next reference, up to its first await
OcrNext ==
    /\ pc = "ocr_loop"
    /\ ocr_wait = "none"
    /\ ocr_i <= Len(image_paths)
    /\ IF IsUrl(image_paths[ocr_i])
       THEN /\ head_requests' = Append(head_requests, ocr_i)
            /\ ocr_wait' = "head"
            /\ UNCHANGED <<pc, result, raised, log, all_results, ocr_i, ocr_log,
                           ocr_calls, file_accesses>>
       ELSE /\ file_accesses' = Append(file_accesses, ocr_i)
            /\ UNCHANGED head_requests
            /\ \E file \in FileStates :
                  LET doc == MistralLocalDocument(image_paths[ocr_i], file)
                  IN IF doc.ok
                     THEN PostSent
                     ELSE ImageRaises(doc.val, "prepare_failed") /\ UNCHANGED ocr_calls
    /\ UNCHANGED <<inputs, run_result, cfg, image_paths, model_name, tasks, completion,
                   gather_exc, build_state>>

\* lines 512-570: the HEAD request of a URL reference is answered
OcrHeadReturn ==
    /\ pc = "ocr_loop"
    /\ ocr_wait = "head"
    /\ \E head \in HeadOutcomes :
          LET v == ValidateUrl(image_paths[ocr_i], head)
          IN IF v.ok
             THEN PostSent
             ELSE ImageRaises(v.val, HeadClass(head)) /\ UNCHANGED ocr_calls
    /\ UNCHANGED <<inputs, run_result, cfg, image_paths, model_name, gather_state, build_state>>

\* lines 568-609: the POST is answered; the section of the image is recorded
OcrPostReturn ==
    /\ pc = "ocr_loop"
    /\ ocr_wait = "post"
    /\ \E resp \in OcrResponses :
          LET out == PostOutcome(image_paths[ocr_i], resp)
          IN IF out.ok
             THEN AppendSection(out.val, PostClass(resp))
             ELSE ImageRaises(out.val, PostClass(resp))
    /\ UNCHANGED <<inputs, run_result, cfg, image_paths, model_name, gather_state,
                   build_state, ocr_calls>>

\* lines 611-632: after the loop the sections are combined and returned
OcrFinish ==
    /\ pc = "ocr_loop"
    /\ ocr_wait = "none"
    /\ ocr_i > Len(image_paths)
    /\ ReturnEnvelope(MistralResult(req.prompt, all_results, cfg.mistral_deployment))
    /\ UNCHANGED <<inputs, run_result, cfg, image_paths, model_name, gather_state,
                   build_state, ocr_state>>

Next ==
    \/ Validate
    \/ AzureCheck
    \/ GatherCall
    \/ \E i \in 1..(MaxImages + 1) : TaskStart(i)
    \/ \E i \in 1..(MaxImages + 1) : HeadReturn(i)
    \/ GatherResume
    \/ Build
    \/ ModelReturn
    \/ MistralConfig
    \/ OcrNext
    \/ OcrHeadReturn
    \/ OcrPostReturn
    \/ OcrFinish

Spec == Init /\ [][Next]_vars

(***************************************************************************)
(* _resolve_path_with_fallback on a filesystem.                            *)
(*                                                                         *)
(* A pathlib path is the tuple of its parts; an absolute path starts with  *)
(* the root "/", a path that starts with "~" is expanded to the home       *)
(* directory.  The filesystem is a set of regular files (their canonical   *)
(* paths; every proper prefix of a file is a directory) and a set of       *)
(* symbolic links, each [at, to] with a canonical target.                  *)
(***************************************************************************)
\* the largest number of components of a reference
MaxParts == 3

Root == "/"
Tilde == "~"
ParentDir == ".."
\* Path.cwd() and Path.home()
Cwd == <<Root, "w">>
HomeDir == <<Root, "h">>

\* Path.expanduser()
ExpandUser(parts) ==
    IF parts # <<>> /\ parts[1] = Tilde THEN HomeDir \o Tail(parts) ELSE parts

\* variant: no path is taken as absolute
IsAbsoluteNever(parts) == FALSE

\* Path.is_absolute()
IsAbsolute(parts) == parts # <<>> /\ parts[1] = Root

\* a / b of pathlib: an absolute right operand replaces the left one
JoinPath(a, b) == IF b # <<>> /\ b[1] = Root THEN b ELSE a \o b

\* os.path.realpath below acc: ".." drops the last component found so far,
\* a symbolic link is replaced by its target, a component that does not
\* exist is kept as it is
RECURSIVE RealPath(_, _, _)
RealPath(acc, rest, links) ==
    IF rest = <<>> THEN acc
    ELSE IF Head(rest) = ParentDir
    THEN RealPath(IF Len(acc) > 1 THEN SubSeq(acc, 1, Len(acc) - 1) ELSE acc,
                  Tail(rest), links)
    ELSE LET newpath == Append(acc, Head(rest))
         IN IF \E l \in links : l.at = newpath
            THEN RealPath((CHOOSE l \in links : l.at = newpath).to, Tail(rest), links)
            ELSE RealPath(newpath, Tail(rest), links)

\* Path.resolve() of an absolute path
Resolve(parts, disk) == RealPath(<<Root>>, Tail(parts), disk.links)

\* the directories and files of the filesystem
Entries(disk) ==
    UNION {{SubSeq(f, 1, k) : k \in 1..Len(f)} : f \in disk.files \cup {Cwd, HomeDir}}

\* Path.exists() of a resolved path
Exists(parts, disk) == parts \in Entries(disk)

\* str(path)
PathStr(parts) ==
    LET names(s) == [k \in 1..Len(s) |-> <<s[k]>>]
    IN IF parts = <<>> THEN <<".">>
       ELSE IF parts[1] = Root THEN <<Root>> \o Join(<<"/">>, names(Tail(parts)))
       ELSE Join(<<"/">>, names(parts))

\* variant: the fallback is tried for every relative reference
HasFallbackAlways(parts) == TRUE

\* len(parts) > 1
HasFallback(parts) == Len(parts) > 1

\* variant: every leading directory is stripped, the file name is kept
StrippedPathFileName(parts) == <<parts[Len(parts)]>>

\* Path(*parts[1:])
StrippedPath(parts) == Tail(parts)

\* variant: the second candidate is left out of the message
NotFoundMessageFirstOnly(name, first, second) ==
    <<"Image not found at path: ">> \o name \o <<". Tried: ">> \o PathStr(first)
    \o <<". Please check that the file exists and the path is correct.">>

\* error_msg
NotFoundMessage(name, first, second) ==
    <<"Image not found at path: ">> \o name \o <<". Tried: ">> \o PathStr(first)
    \o (IF second # None THEN <<" and ">> \o PathStr(Get(second)) ELSE <<>>)
    \o <<". Please check that the file exists and the path is correct.">>

(***************************************************************************)
(* Inputs of the resolver.                                                 *)
(***************************************************************************)
Components == {"a", "b", "c", "w", ParentDir}
\* the parts of Path(image_path): relative, absolute, or under "~"
ReferenceParts ==
    LET relative == SeqsUpTo(Components, MaxParts)
    IN relative \cup {<<Root>> \o p : p \in relative} \cup {<<Tilde>> \o p : p \in relative}
References == {[name |-> PathStr(p), parts |-> p] : p \in ReferenceParts}

\* the places where a regular file may exist, and the link that may exist
FilePlaces ==
    {Cwd \o <<"a", "b">>, Cwd \o <<"b">>, Cwd \o <<"a", "a", "b">>,
     <<Root, "b">>, HomeDir \o <<"a">>}
LinkPlaces ==
    {[at |-> Cwd \o <<"c">>, to |-> Cwd \o <<"b">>],
     [at |-> Cwd \o <<"c">>, to |-> Cwd \o <<"a">>]}
Filesystems ==
    [files : SUBSET FilePlaces, links : {{}} \cup {{l} : l \in LinkPlaces}]

\* no call of analyze_images_impl is under way
OrchestratorIdle ==
    /\ environ = [MODEL |-> None, AZURE_OPENAI_ENDPOINT |-> None,
                  AZURE_OPENAI_API_KEY |-> None, AZURE_MISTRAL_DEPLOYMENT |-> None]
    /\ startup_environ = environ
    /\ DEBUG_MODE = FALSE
    /\ req = [prompt |-> <<>>, image_paths |-> [is_str |-> FALSE, items |-> <<>>],
              model |-> None, max_tokens |-> None, reasoning_effort |-> "high",
              output_schema |-> None, use_mistral |-> FALSE]
    /\ pc = "idle"
    /\ ToolIdle
    /\ cfg = NoConfig
    /\ image_paths = <<>>
    /\ model_name = <<>>
    /\ tasks = <<>>
    /\ completion = <<>>
    /\ gather_exc = None
    /\ message_parts = <<>>
    /\ model_settings_kwargs = EmptyDict
    /\ output_type = None
    /\ all_results = <<>>
    /\ ocr_i = 1
    /\ ocr_wait = "none"
    /\ ocr_log = <<>>
    /\ run_result = None
    /\ result = NoEnvelope
    /\ raised = None
    /\ log = <<>>
    /\ head_requests = <<>>
    /\ file_accesses = <<>>
    /\ model_calls = <<>>
    /\ ocr_calls = <<>>

ResolverInit ==
    /\ OrchestratorIdle
    /\ CompilerIdle
    /\ fs \in Filesystems
    /\ image_path \in References
    /\ resolver_pc = "expanduser"
    /\ expanded_path = <<>>
    /\ first_attempt = None
    /\ second_attempt = None
    /\ cwd_reads = 0
    /\ exists_calls = <<>>
    /\ resolved = None

\* return / raise of _resolve_path_with_fallback
ResolverEnds(out) ==
    /\ resolved' = Some(out)
    /\ resolver_pc' = "done"

\* lines 118-122: expanduser; an absolute path is returned resolved
ExpandAndCheckAbsolute ==
    /\ resolver_pc = "expanduser"
    /\ expanded_path' = ExpandUser(image_path.parts)
    /\ IF IsAbsolute(expanded_path')
       THEN ResolverEnds(Return(Resolve(expanded_path', fs)))
       ELSE resolver_pc' = "first_attempt" /\ resolved' = resolved
    /\ UNCHANGED <<orchestrator_vars, compiler_vars, fs, image_path, first_attempt,
                   second_attempt, cwd_reads, exists_calls>>

\* lines 124-130: the first attempt, relative to the working directory
FirstAttempt ==
    /\ resolver_pc = "first_attempt"
    /\ LET attempt == Resolve(JoinPath(Cwd, expanded_path), fs)
       IN /\ first_attempt' = Some(attempt)
          /\ cwd_reads' = cwd_reads + 1
          /\ exists_calls' = Append(exists_calls, attempt)
          /\ IF Exists(attempt, fs)
             THEN ResolverEnds(Return(attempt))
             ELSE resolver_pc' = "second_attempt" /\ resolved' = resolved
    /\ UNCHANGED <<orchestrator_vars, compiler_vars, fs, image_path, expanded_path, second_attempt>>

\* lines 132-154: the second attempt without the first component, or the
\* FileNotFoundError
SecondAttempt ==
    /\ resolver_pc = "second_attempt"
    /\ IF HasFallback(expanded_path)
       THEN LET attempt == Resolve(JoinPath(Cwd, StrippedPath(expanded_path)), fs)
            IN /\ second_attempt' = Some(attempt)
               /\ cwd_reads' = cwd_reads + 1
               /\ exists_calls' = Append(exists_calls, attempt)
               /\ IF Exists(attempt, fs)
                  THEN ResolverEnds(Return(attempt))
                  ELSE ResolverEnds(Raise(Exc("FileNotFoundError",
                           NotFoundMessage(image_path.name, Get(first_attempt),
                                           Some(attempt)))))
       ELSE /\ ResolverEnds(Raise(Exc("FileNotFoundError",
                    NotFoundMessage(image_path.name, Get(first_attempt), None))))
            /\ UNCHANGED <<second_attempt, cwd_reads, exists_calls>>
    /\ UNCHANGED <<orchestrator_vars, compiler_vars, fs, image_path, expanded_path, first_attempt>>

ResolverNext ==
    \/ ExpandAndCheckAbsolute
    \/ FirstAttempt
    \/ SecondAttempt

ResolverSpec == ResolverInit /\ [][ResolverNext]_vars

(***************************************************************************)
(* The schema compilation of analyze_images_impl on its own.               *)
(***************************************************************************)
\* the largest number of entries of properties
MaxFields == 2

FieldNameList == <<"x", "y", "z", "u">>
FieldNames == {FieldNameList[k] : k \in 1..MaxFields}
TypeNames == {"string", "number", "integer", "boolean", "array", "object", "date"}
\* a property with a type, or without one
FieldDefs == {EmptyDict} \cup {[type |-> t] : t \in TypeNames}
PropertyMaps == UNION {[names -> FieldDefs] : names \in SUBSET FieldNames}
\* the names listed in required: properties and a name that is no property
RequiredLists == SeqsUpTo(FieldNames \cup {"ghost"}, 2)
CompilerSchemas ==
    {[properties |-> p, required |-> r] : p \in PropertyMaps, r \in RequiredLists}
    \cup {[properties |-> p] : p \in PropertyMaps}
    \cup {[required |-> r] : r \in RequiredLists}
    \cup {EmptyDict}

CompilerInit ==
    /\ OrchestratorIdle
    /\ ResolverIdle
    /\ output_schema \in {None} \cup {Some(schema) : schema \in CompilerSchemas}
    /\ compiler_pc = "create_agent"
    /\ result_model = None

\* lines 378-415: the output type handed to Agent(...)
CompileOutputType ==
    /\ compiler_pc = "create_agent"
    /\ result_model' = OutputType(output_schema)
    /\ compiler_pc' = "done"
    /\ UNCHANGED <<orchestrator_vars, resolver_vars, output_schema>>

CompilerNext == CompileOutputType

CompilerSpec == CompilerInit /\ [][CompilerNext]_vars

(***************************************************************************)
(* The configuration of a request and the process environment.             *)
(*                                                                         *)
(* The module is imported with the environment startup_environ, which      *)
(* fixes DEBUG_MODE; the environment may be changed before a request is    *)
(* made; the request reads it at its head.                                 *)
(***************************************************************************)
ConfigEnvironments ==
    [MODEL : {None, Some(OpenAiGpt4o)},
     AZURE_OPENAI_ENDPOINT : {None, Some(<<"https://r.cognitiveservices.azure.com/">>)},
     AZURE_OPENAI_API_KEY : {None, Some(<<"secret">>)},
     AZURE_MISTRAL_DEPLOYMENT : {None, Some(<<"mistral-ocr-2">>)},
     MCP_DEBUG : {None, Some(<<"T","R","U","E">>)}]
ConfigRequests ==
    [prompt : {<<" ", "a">>},
     image_paths : {[is_str |-> TRUE, items |-> <<r>>] : r \in ListRefs},
     model : {None, Some(AzureGpt4o)}, max_tokens : {None}, reasoning_effort : {"high"},
     output_schema : {None}, use_mistral : BOOLEAN]

ConfigInit ==
    /\ startup_environ \in ConfigEnvironments
    /\ environ = startup_environ
    /\ DEBUG_MODE = ImportDebugMode(startup_environ)
    /\ req \in ConfigRequests
    /\ RequestStart
    /\ ToolIdle
    /\ ResolverIdle
    /\ CompilerIdle

\* the process environment is changed after the import and before the
\* request: os.getenv reads the live os.environ
EnvironChange ==
    /\ pc = "start"
    /\ environ = startup_environ
    /\ environ' \in ConfigEnvironments \ {environ}
    /\ UNCHANGED <<startup_environ, DEBUG_MODE, req, pc, cfg, image_paths, model_name,
                   tasks, completion, gather_exc, message_parts, model_settings_kwargs,
                   output_type, all_results, ocr_i, ocr_wait, ocr_log, run_result,
                   result, raised, log, head_requests, file_accesses, model_calls,
                   ocr_calls, resolver_vars, compiler_vars, tool_vars>>

ConfigNext ==
    \/ EnvironChange
    \/ Next

ConfigSpec == ConfigInit /\ [][ConfigNext]_vars

(***************************************************************************)
(* The tool analyze_images of server.py next to analyze_images_impl.       *)
(*                                                                         *)
(* Both are called with the same arguments in the same world: the          *)
(* filesystem, the answer of the HEAD request, of agent.run and of the OCR *)
(* endpoint are fixed before the calls.  The request has one reference or  *)
(* none, so that the order of concurrent preparations plays no part.       *)
(***************************************************************************)
\* _resolve_path_with_fallback as a function of the filesystem
ResolvePathWithFallback(ref, disk) ==
    LET expanded == ExpandUser(ref.parts)
        first == Resolve(JoinPath(Cwd, expanded), disk)
        second == Resolve(JoinPath(Cwd, StrippedPath(expanded)), disk)
    IN IF IsAbsolute(expanded) THEN Return(Resolve(expanded, disk))
       ELSE IF Exists(first, disk) THEN Return(first)
       ELSE IF HasFallback(expanded)
       THEN IF Exists(second, disk) THEN Return(second)
            ELSE Raise(Exc("FileNotFoundError",
                           NotFoundMessage(<<ref.name>>, first, Some(second))))
       ELSE Raise(Exc("FileNotFoundError", NotFoundMessage(<<ref.name>>, first, None)))

\* core.py, _prepare_image_for_pydantic of a local reference: the resolver,
\* then the file it found
CorePrepareLocal(ref, w) ==
    IF ResolvePathWithFallback(ref, w.disk).ok
    THEN PrepareLocal(ref, w.content)
    ELSE ResolvePathWithFallback(ref, w.disk)

\* what the OCR loop does with a local reference
CoreLocalDocument(ref, w) ==
    IF ResolvePathWithFallback(ref, w.disk).ok
    THEN MistralLocalDocument(ref, w.content)
    ELSE ResolvePathWithFallback(ref, w.disk)

\* _analyze_with_mistral for one reference
CoreMistral(request, conf, ref, w) ==
    LET doc == IF IsUrl(ref) THEN ValidateUrl(ref, w.head) ELSE CoreLocalDocument(ref, w)
        post == PostOutcome(ref, w.ocr)
        section == IF ~doc.ok THEN Section(ref, ErrorMarker(doc.val.msg))
                   ELSE IF ~post.ok THEN Section(ref, ErrorMarker(post.val.msg))
                   ELSE post.val
    IN IF MistralConfigMissing(conf.azure_endpoint, conf.azure_api_key)
       THEN MistralNotConfiguredError
       ELSE MistralResult(request.prompt, <<section>>, conf.mistral_deployment)

\* the standard path after the validation, common to core.py and server.py:
\* the configuration check, the preparation, agent.run and the response
StandardEnvelope(model, conf, prepared, schema, debug, w) ==
    LET name == EffectiveModel(model, conf.default_model)
    IN IF AzureConfigMissing(name, conf.azure_endpoint, conf.azure_api_key)
       THEN AzureNotConfiguredError
       ELSE IF ~prepared.ok THEN FormatError(prepared.val, debug)
       ELSE IF w.run = None
       THEN FormatError(Exc("ModelHTTPError", <<"status_code: 429">>), debug)
       ELSE BuildResponse(schema, name,
                          [output |-> RunOutput(OutputType(schema)), usage |-> Get(w.run)])

\* core.py, analyze_images_impl
AnalyzeImagesImpl(request, env, debug, w) ==
    LET paths == NormalizeImagePaths(request.image_paths)
        err == ValidationError(request.prompt, paths, request.reasoning_effort)
        conf == ReadConfiguration(env)
    IN IF err # None THEN Get(err)
       ELSE IF request.use_mistral THEN CoreMistral(request, conf, paths[1], w)
       ELSE StandardEnvelope(request.model, conf,
                             IF IsUrl(paths[1]) THEN PrepareUrl(paths[1], w.head)
                             ELSE CorePrepareLocal(paths[1], w),
                             request.output_schema, debug, w)

\* server.py, _prepare_image_for_pydantic of a local reference:
\* Path(image_path).expanduser().resolve(), exists, is_file, Image.open
ServerPrepareLocal(ref, w) ==
    LET resolved_path == Resolve(JoinPath(Cwd, ExpandUser(ref.parts)), w.disk)
    IN IF ~Exists(resolved_path, w.disk)
       THEN Raise(Exc("FileNotFoundError",
                      <<"Image not found at path: ", ref.name,
                        ". Please check that the file exists and the path is correct.">>))
       ELSE IF resolved_path \notin w.disk.files
       THEN Raise(Exc("ValueError", <<"Path is not a file: ", ref.name>>))
       ELSE IF w.content = "corrupt" \/ Ext(ref) = ".svg"
       THEN Raise(Exc("ValueError", <<"Invalid image file at ", ref.name>>))
       ELSE Return(BinaryContent(ref, MimeType(Ext(ref))))

\* server.py, the body of analyze_images with the arguments of its signature
ServerAnalyzeImages(request, env, debug, w) ==
    LET paths == NormalizeImagePaths(request.image_paths)
        err == ValidationError(request.prompt, paths, request.reasoning_effort)
        conf == ReadConfiguration(env)
    IN IF err # None THEN Get(err)
       ELSE StandardEnvelope(request.model, conf,
                             IF IsUrl(paths[1]) THEN PrepareUrl(paths[1], w.head)
                             ELSE ServerPrepareLocal(paths[1], w),
                             None, debug, w)

\* the arguments the signature of the tool does not have
UnknownArguments(request) ==
    {a \in {"output_schema", "use_mistral"} :
        \/ a = "output_schema" /\ request.output_schema # None
        \/ a = "use_mistral" /\ request.use_mistral}

\* the call of the tool by the host: arguments outside the signature are
\* dropped or make the call fail before the body runs, as the host decides
ToolCallOutcome(request, env, debug, w) ==
    IF UnknownArguments(request) # {} /\ ~w.host_drops_unknown
    THEN Raise(Exc("TypeError", <<"unexpected keyword argument">>))
    ELSE Return(ServerAnalyzeImages(request, env, debug, w))

ToolFilePlaces ==
    {Cwd \o LocalRef.parts, Cwd \o StrippedPath(LocalRef.parts), Cwd \o SvgRef.parts}
Worlds ==
    [disk : [files : SUBSET ToolFilePlaces, links : {{}}],
     content : {"corrupt", "image"},
     head : {[kind |-> "response", status |-> 200, image |-> TRUE],
             [kind |-> "timeout", status |-> 0, image |-> FALSE]},
     run : {None, Some(Some([total_tokens |-> 12]))},
     ocr : {OcrResponse("http", 200, TRUE,
                        OcrBody("dict", Some(<<Page(Some(<<"T1">>)), Page(None),
                                               Page(Some(<<"T2">>))>>)))},
     host_drops_unknown : BOOLEAN]
ToolRequests ==
    [prompt : {<<>>, <<" ", "a">>},
     image_paths : {[is_str |-> TRUE, items |-> <<r>>] : r \in Refs}
                   \cup {[is_str |-> FALSE, items |-> <<>>]},
     model : {None, Some(OpenAiGPT5)}, max_tokens : {Some(500)},
     reasoning_effort : {"high", "invalid"},
     output_schema : {None, Some(ProductSchema)}, use_mistral : BOOLEAN]
ToolEnvironments ==
    [MODEL : {None},
     AZURE_OPENAI_ENDPOINT : {None, Some(<<"https://r.cognitiveservices.azure.com/">>)},
     AZURE_OPENAI_API_KEY : {Some(<<"secret">>)},
     AZURE_MISTRAL_DEPLOYMENT : {None}]

ServerInit ==
    /\ environ \in ToolEnvironments
    /\ startup_environ = environ
    /\ DEBUG_MODE \in BOOLEAN
    /\ req \in ToolRequests
    /\ RequestStart
    /\ world \in Worlds
    /\ core_envelope = NoEnvelope
    /\ tool_outcome = None
    /\ ResolverIdle
    /\ CompilerIdle

\* analyze_images_impl is called with the arguments and returns
CoreCall ==
    /\ core_envelope = NoEnvelope
    /\ core_envelope' = AnalyzeImagesImpl(req, environ, DEBUG_MODE, world)
    /\ UNCHANGED <<environ, startup_environ, DEBUG_MODE, req, pc, cfg, image_paths,
                   model_name, tasks, completion, gather_exc, message_parts,
                   model_settings_kwargs, output_type, all_results, ocr_i, ocr_wait,
                   ocr_log, run_result, result, raised, log, head_requests,
                   file_accesses, model_calls, ocr_calls, world, tool_outcome,
                   resolver_vars, compiler_vars>>

\* the tool of server.py is called with the same arguments; its
\* configuration is the one read when the module was imported
ToolCall ==
    /\ tool_outcome = None
    /\ tool_outcome' = Some(ToolCallOutcome(req, startup_environ, DEBUG_MODE, world))
    /\ UNCHANGED <<environ, startup_environ, DEBUG_MODE, req, pc, cfg, image_paths,
                   model_name, tasks, completion, gather_exc, message_parts,
                   model_settings_kwargs, output_type, all_results, ocr_i, ocr_wait,
                   ocr_log, run_result, result, raised, log, head_requests,
                   file_accesses, model_calls, ocr_calls, world, core_envelope,
                   resolver_vars, compiler_vars>>

ServerNext ==
    \/ CoreCall
    \/ ToolCall

ServerSpec == ServerInit /\ [][ServerNext]_vars

(***************************************************************************)
(* Properties.                                                             *)
(***************************************************************************)
Returned == pc = "done"
IsErrorEnvelope(env) == "error" \in DOMAIN env
IsResultEnvelope(env) == DOMAIN env \cap {"analysis", "data"} # {}
NoEffects ==
    /\ head_requests = <<>>
    /\ file_accesses = <<>>
    /\ model_calls = <<>>
    /\ ocr_calls = <<>>
    /\ tasks = <<>>

\* C1: every call returns exactly one envelope: an error envelope (key
\* error) or a result envelope (key analysis or data), never both kinds of
\* key in one dict and never neither.
C1_ExactlyOneEnvelope ==
    Returned => (IsErrorEnvelope(result) # IsResultEnvelope(result))

\* a structured result with usage has been returned
C1_Witness ==
    /\ Returned
    /\ {"data", "usage"} \subseteq DOMAIN result
    /\ ~IsErrorEnvelope(result)

\* C2: no exception is propagated to the caller; whatever is raised during
\* the call comes back as a returned error envelope.
C2_NeverRaises ==
    /\ raised = None
    /\ Returned => result # NoEnvelope

\* an exception of the model boundary has been returned as an envelope
C2_Witness ==
    /\ Returned
    /\ model_calls # <<>>
    /\ IsErrorEnvelope(result)
    /\ result.error_type = "ModelHTTPError"

PromptViolated == \A k \in 1..Len(req.prompt) : req.prompt[k] = " "
ListViolated == ~req.image_paths.is_str /\ req.image_paths.items = <<>>
EffortViolated == req.reasoning_effort \notin {"low", "medium", "high"}

\* C3: the input checks are ordered prompt, image list, reasoning effort
\* and the first failing check decides the returned error, each of type
\* ValueError; an empty prompt with an empty list gives the prompt error.
C3_ValidationOrder ==
    Returned =>
        /\ PromptViolated =>
              /\ result.error = <<"Prompt cannot be empty.">>
              /\ result.error_type = "ValueError"
        /\ ~PromptViolated /\ ListViolated =>
              /\ result.error = <<"At least one image path is required.">>
              /\ result.error_type = "ValueError"
        /\ ~PromptViolated /\ ~ListViolated /\ EffortViolated =>
              /\ result.error = <<"Invalid reasoning_effort: ", req.reasoning_effort>>
              /\ result.error_type = "ValueError"

\* a request violating all three checks got the prompt error
C3_Witness ==
    /\ Returned
    /\ PromptViolated /\ ListViolated /\ EffortViolated
    /\ result.error = <<"Prompt cannot be empty.">>

RejectionTexts ==
    { <<"Prompt cannot be empty.">>,
      <<"At least one image path is required.">>,
      <<"Invalid reasoning_effort: ", req.reasoning_effort>>,
      <<"Azure OpenAI not configured.">>,
      <<"Azure configuration required for Mistral Document AI.">> }
Rejected == Returned /\ IsErrorEnvelope(result) /\ result.error \in RejectionTexts

\* C4: a request rejected by input validation or by a configuration check
\* has had no side effect: no path resolved, no file read, no HEAD request,
\* no preparation started, no model call and no OCR call.
C4_RejectionWithoutEffects == Rejected => NoEffects

\* a request with a reference to prepare was rejected by the Azure check
C4_Witness ==
    /\ Rejected
    /\ result.error_type = "ConfigurationError"
    /\ ~req.use_mistral
    /\ image_paths # <<>>

\* the content a reference is prepared into, by kind and origin
PreparedFrom(content, ref) ==
    /\ content.source = ref.name
    /\ content.kind = IF ref.scheme \in {"http://", "https://"}
                      THEN "ImageUrl" ELSE "BinaryContent"

\* C5: the message handed to the model is the prompt followed by the
\* prepared images in the order of the references, whatever the order in
\* which the preparations finished.
C5_MessageOrder ==
    \A k \in 1..Len(model_calls) :
        /\ Len(model_calls[k]) = Len(image_paths) + 1
        /\ model_calls[k][1] = req.prompt
        /\ \A i \in 1..Len(image_paths) :
              PreparedFrom(model_calls[k][i + 1], image_paths[i])

\* the model was called after the second preparation finished before the first
C5_Witness ==
    /\ model_calls # <<>>
    /\ Len(completion) >= 2
    /\ completion[1] > completion[2]
    /\ image_paths[1] # image_paths[2]

FailedTasks == {i \in 1..Len(tasks) : tasks[i].st = "failed"}

\* C6: in the standard path, when the preparation of a reference fails the
\* request returns an error envelope carrying the failure of a failed
\* preparation (of that one, when it is the only one that failed); no
\* result envelope is produced and the model is never called.
C6_PreparationFailureFailsRequest ==
    (Returned /\ ~req.use_mistral /\ FailedTasks # {}) =>
        /\ IsErrorEnvelope(result)
        /\ ~IsResultEnvelope(result)
        /\ model_calls = <<>>
        /\ \E i \in FailedTasks :
              /\ result.error = Get(tasks[i].out).val.msg
              /\ result.error_type = Get(tasks[i].out).val.type

\* a request of two references returned while one preparation had failed
\* and the other had succeeded
C6_Witness ==
    /\ Returned
    /\ ~req.use_mistral
    /\ Cardinality(FailedTasks) = 1
    /\ \E j \in 1..Len(tasks) : tasks[j].st = "done"

OcrFailures ==
    {"prepare_failed", "head_timeout", "http_error", "call_failed", "call_timeout",
     "parse_failed"}
\* a variable of the environment that is unset or set to the empty string
Absent(name) == environ[name] \in {None, Some(<<>>)}
OcrConfigured ==
    ~Absent("AZURE_OPENAI_ENDPOINT") /\ ~Absent("AZURE_OPENAI_API_KEY")
OcrRequestDone ==
    /\ Returned
    /\ req.use_mistral
    /\ OcrConfigured
    /\ ~PromptViolated /\ ~ListViolated /\ ~EffortViolated
IsErrorSection(section, ref) ==
    /\ Len(section) >= 4
    /\ SubSeq(section, 1, 3) = <<"=== ", ref.name, " ===\n">>
    /\ section[4] \in {"[Error: ", "[Error extracting text: "}

\* C7: in OCR mode a failure on image k is recorded as an error marker in
\* the section of image k and does not abort the batch: every image is
\* processed, and an image whose OCR call yields text has that text in its
\* section.
C7_OcrFailureIsolated ==
    /\ \A k \in 1..Len(ocr_log) :
          ocr_log[k] \in OcrFailures =>
              /\ Len(all_results) >= k
              /\ IsErrorSection(all_results[k], image_paths[k])
    /\ \A k \in 1..Len(ocr_log) :
          ocr_log[k] = "text" =>
              /\ Len(all_results) >= k
              /\ all_results[k] =
                    <<"=== ", image_paths[k].name, " ===\n", "T1", "\n\n", "T2">>
    /\ OcrRequestDone =>
          /\ Len(ocr_log) = Len(image_paths)
          /\ Len(all_results) = Len(image_paths)
          /\ IsResultEnvelope(result)

\* a request was answered in which an image failed and a later one gave text
C7_Witness ==
    /\ OcrRequestDone
    /\ \E k \in 1..Len(ocr_log) : \E j \in 1..Len(ocr_log) :
          k < j /\ ocr_log[k] \in OcrFailures /\ ocr_log[j] = "text"

\* the references named by the section headings of a text, in order
RECURSIVE HeaderNames(_)
HeaderNames(text) ==
    IF Len(text) < 3 THEN <<>>
    ELSE IF text[1] = "=== " /\ text[3] = " ===\n"
    THEN <<text[2]>> \o HeaderNames(SubSeq(text, 4, Len(text)))
    ELSE HeaderNames(Tail(text))

\* C8: in OCR mode with the endpoint configured the combined text has one
\* section heading per input reference, in the order of the references,
\* for any mix of successes and failures.
C8_OneSectionPerReference ==
    OcrRequestDone =>
        /\ "analysis" \in DOMAIN result
        /\ HeaderNames(result.analysis) =
              [i \in 1..Len(image_paths) |-> image_paths[i].name]

\* two different references, one failed and one succeeded, were combined
C8_Witness ==
    /\ OcrRequestDone
    /\ Len(image_paths) = 2
    /\ image_paths[1] # image_paths[2]
    /\ ocr_log[1] \in OcrFailures
    /\ ocr_log[2] \notin OcrFailures

ValidSchema ==
    req.output_schema # None /\ "properties" \in DOMAIN Get(req.output_schema)

\* C9 as stated: with a valid output_schema the envelope never has the
\* analysis key, whatever the other arguments; without an output_schema it
\* never has the data key.
C9_ShapeBySchema ==
    Returned =>
        /\ ValidSchema => "analysis" \notin DOMAIN result
        /\ req.output_schema = None => "data" \notin DOMAIN result

\* C9 (amended): with a valid output_schema and use_mistral false the
\* envelope never has the analysis key; without an output_schema it never
\* has the data key.
C9_ShapeBySchemaStandardPath ==
    Returned =>
        /\ (ValidSchema /\ ~req.use_mistral) => "analysis" \notin DOMAIN result
        /\ req.output_schema = None => "data" \notin DOMAIN result

\* a standard-path request with a schema returned structured data
C9_Witness ==
    /\ Returned
    /\ ValidSchema
    /\ ~req.use_mistral
    /\ "data" \in DOMAIN result

\* the effective model name of the request
EffectiveName ==
    IF req.model # None THEN Get(req.model)
    ELSE IF environ["MODEL"] # None THEN Get(environ["MODEL"])
    ELSE DefaultModelName

\* the input model names that contain gpt-5 in some letter case
MarkedNames == {DefaultModelName, OpenAiGPT5}

\* C10: with a token limit and a model name containing gpt-5 in any letter
\* case the settings are max_completion_tokens = limit only; with a limit
\* and a name without the marker, max_tokens = limit only; without a limit
\* neither is set.
C10_TokenLimitRouting ==
    pc = "run" =>
        /\ (req.max_tokens # None /\ EffectiveName \in MarkedNames) =>
              model_settings_kwargs = [max_completion_tokens |-> Get(req.max_tokens)]
        /\ (req.max_tokens # None /\ EffectiveName \notin MarkedNames) =>
              model_settings_kwargs = [max_tokens |-> Get(req.max_tokens)]
        /\ req.max_tokens = None => DOMAIN model_settings_kwargs = {}
        /\ ~({"max_tokens", "max_completion_tokens"} \subseteq DOMAIN model_settings_kwargs)

\* a limit of 500 was routed for a model named with an upper-case marker
C10_Witness ==
    /\ pc = "run"
    /\ req.max_tokens = Some(500)
    /\ req.model = Some(OpenAiGPT5)
    /\ model_settings_kwargs = [max_completion_tokens |-> 500]

(***************************************************************************)
(* Properties of _resolve_path_with_fallback.                              *)
(***************************************************************************)
ResolverDone == resolver_pc = "done"
RelativeReference ==
    image_path.parts = <<>> \/ image_path.parts[1] \notin {Root, Tilde}
\* attempt A and attempt B of the reference: the working directory joined
\* with the reference, and with the reference minus its first component
CandidateA == Resolve(Cwd \o image_path.parts, fs)
CandidateB == Resolve(Cwd \o Tail(image_path.parts), fs)
\* a canonical path has no ".." and passes through no symbolic link
IsCanonical(p) ==
    /\ \A k \in 1..Len(p) : p[k] # ParentDir
    /\ \A k \in 1..Len(p) : \A l \in fs.links : l.at # SubSeq(p, 1, k)
Occurrences(s, token) == Cardinality({k \in 1..Len(s) : s[k] = token})

\* C11: for a relative reference the candidates are tried in a fixed order
\* and the first that exists is returned: one component gives exactly one
\* attempt (cwd/ref); two or more give at most two, the second being cwd
\* joined with the reference minus its first component, tried only when
\* the first does not exist, so attempt A wins when both exist.
C11_AttemptOrder ==
    RelativeReference =>
        /\ Len(exists_calls) <= (IF Len(image_path.parts) >= 2 THEN 2 ELSE 1)
        /\ cwd_reads = Len(exists_calls)
        /\ Len(exists_calls) >= 1 => exists_calls[1] = CandidateA
        /\ Len(exists_calls) = 2 =>
              /\ exists_calls[2] = CandidateB
              /\ ~Exists(CandidateA, fs)
        /\ (ResolverDone /\ Len(image_path.parts) = 1) => exists_calls = <<CandidateA>>
        /\ (ResolverDone /\ Exists(CandidateA, fs)) => resolved = Some(Return(CandidateA))
        /\ (ResolverDone /\ Get(resolved).ok) =>
              /\ Get(resolved).val = exists_calls[Len(exists_calls)]
              /\ Exists(Get(resolved).val, fs)

\* both candidates exist, they differ, and attempt A was returned
C11_Witness ==
    /\ ResolverDone
    /\ RelativeReference
    /\ Len(image_path.parts) >= 2
    /\ Exists(CandidateA, fs)
    /\ Exists(CandidateB, fs)
    /\ CandidateA # CandidateB
    /\ resolved = Some(Return(CandidateA))
    /\ exists_calls = <<CandidateA>>

\* C12: with working directory W, when a file exists at W/<rest> and
\* nothing exists at W/<first>/<rest>, resolving the relative reference
\* <first>/<rest> returns the canonical path of W/<rest>, whatever the
\* depth of <rest>: only the first component is dropped.
C12_FallbackCorrectness ==
    (/\ ResolverDone
     /\ RelativeReference
     /\ Len(image_path.parts) >= 2
     /\ CandidateB \in fs.files
     /\ ~Exists(CandidateA, fs))
    => /\ resolved = Some(Return(CandidateB))
       /\ IsCanonical(CandidateB)

\* the fallback returned a file below a directory of the working directory
\* for a reference of three plain components
C12_Witness ==
    /\ ResolverDone
    /\ Len(image_path.parts) = 3
    /\ \A k \in 1..3 : image_path.parts[k] \notin {Root, Tilde, ParentDir}
    /\ fs.links = {}
    /\ ~Exists(Cwd \o image_path.parts, fs)
    /\ Cwd \o Tail(image_path.parts) \in fs.files
    /\ resolved = Some(Return(Cwd \o Tail(image_path.parts)))

\* C13: when no candidate exists the resolver fails with FileNotFoundError
\* whose message contains the original reference and exactly the absolute
\* paths attempted: both candidates for two or more components, the single
\* candidate and no second one for a single component.
C13_NotFoundMessage ==
    /\ (/\ ResolverDone
        /\ RelativeReference
        /\ ~Exists(CandidateA, fs)
        /\ Len(image_path.parts) >= 2 => ~Exists(CandidateB, fs))
       => ~Get(resolved).ok
    /\ (ResolverDone /\ ~Get(resolved).ok) =>
          LET e == Get(resolved).val
          IN /\ e.type = "FileNotFoundError"
             /\ Contains(e.msg, image_path.name)
             /\ \A k \in 1..Len(exists_calls) : Contains(e.msg, PathStr(exists_calls[k]))
             /\ Occurrences(e.msg, " and ") = Len(exists_calls) - 1
             /\ Len(image_path.parts) >= 2 => exists_calls = <<CandidateA, CandidateB>>
             /\ Len(image_path.parts) <= 1 => exists_calls = <<CandidateA>>

\* a reference of two components failed after both candidates were tried
C13_Witness ==
    /\ ResolverDone
    /\ ~Get(resolved).ok
    /\ Len(image_path.parts) = 2
    /\ Len(exists_calls) = 2
    /\ exists_calls[1] # exists_calls[2]

ValidationPassed == ~PromptViolated /\ ~ListViolated /\ ~EffortViolated
\* the envelopes the code returns as dict literals, without _format_error
DirectErrorTexts == RejectionTexts \cup {<<"No results from Mistral Document AI">>}

C16_AzureConfigurationError ==
    (Returned /\ ~req.use_mistral /\ ValidationPassed) =>
        ((IsErrorEnvelope(result) /\ result.error_type = "ConfigurationError")
         <=> (/\ StartsWith(EffectiveName, AzurePrefix)
              /\ Absent("AZURE_OPENAI_ENDPOINT") \/ Absent("AZURE_OPENAI_API_KEY")))

\* a request without model argument fell back to the azure default and was
\* rejected because the key is set but empty
C16_Witness ==
    /\ Returned
    /\ ~req.use_mistral
    /\ ValidationPassed
    /\ req.model = None
    /\ environ["MODEL"] = None
    /\ environ["AZURE_OPENAI_ENDPOINT"] # None
    /\ environ["AZURE_OPENAI_API_KEY"] = Some(<<>>)
    /\ result = AzureNotConfiguredError

\* C17: with use_mistral true and the input checks passed, the returned
\* envelope is the OCR aggregator's and none of steps 5-9 happens: no model
\* name is resolved or checked for the azure: prefix, no preparation is
\* handed to the fan-out, no schema is compiled, the model is never called.
C17_OcrDelegation ==
    req.use_mistral =>
        /\ pc \notin {"azure_check", "gather", "gather_wait", "build", "run"}
        /\ model_name = <<>>
        /\ tasks = <<>>
        /\ completion = <<>>
        /\ message_parts = <<>>
        /\ model_settings_kwargs = EmptyDict
        /\ output_type = None
        /\ model_calls = <<>>
        /\ run_result = None
        /\ (Returned /\ ValidationPassed) =>
              result = IF OcrConfigured
                       THEN MistralResult(req.prompt, all_results,
                                Getenv(environ, "AZURE_MISTRAL_DEPLOYMENT",
                                       DefaultMistralDeployment))
                       ELSE MistralNotConfiguredError

\* an OCR request that carried an output_schema returned the aggregator's
\* text after an OCR call
C17_Witness ==
    /\ Returned
    /\ req.use_mistral
    /\ ValidSchema
    /\ ocr_calls # <<>>
    /\ "analysis" \in DOMAIN result
    /\ model_calls = <<>>

\* C18: the result envelope has a usage object only if the model boundary
\* reports usage; the object has exactly those of prompt_tokens,
\* completion_tokens, total_tokens that are reported, with their values,
\* and is absent when none of the three is reported; every result envelope
\* has the model key.
C18_UsageAssembly ==
    (Returned /\ IsResultEnvelope(result)) =>
        /\ "model" \in DOMAIN result
        /\ run_result = None => "usage" \notin DOMAIN result
        /\ run_result # None =>
              LET usage == Get(run_result).usage
                  reported == IF usage = None THEN {}
                              ELSE DOMAIN Get(usage) \cap UsageFields
              IN /\ result.model = model_name
                 /\ "usage" \in DOMAIN result <=> reported # {}
                 /\ "usage" \in DOMAIN result =>
                       /\ DOMAIN result.usage = reported
                       /\ \A f \in reported : result.usage[f] = Get(usage)[f]

\* the boundary reported the total only and the envelope carries just it
C18_Witness ==
    /\ Returned
    /\ run_result # None
    /\ Get(run_result).usage = Some([total_tokens |-> 12])
    /\ "usage" \in DOMAIN result
    /\ DOMAIN result.usage = {"total_tokens"}

\* C20: the OCR aggregator returns an error envelope only for missing
\* endpoint configuration, checked first: with the endpoint or the key
\* absent it returns ConfigurationError before any image is resolved and
\* before any HEAD or OCR call; with both present and a non-empty list it
\* returns {analysis, model: mistral:<deployment>} whatever the per-image
\* outcomes, never the APIError 'No results'.
C20_OcrHardErrorOnlyForConfiguration ==
    (req.use_mistral /\ ValidationPassed) =>
        /\ ~OcrConfigured =>
              /\ NoEffects
              /\ all_results = <<>>
              /\ Returned => result = MistralNotConfiguredError
        /\ (OcrConfigured /\ Returned) =>
              /\ DOMAIN result = {"analysis", "model"}
              /\ result.model = <<"mistral:">> \o
                    Getenv(environ, "AZURE_MISTRAL_DEPLOYMENT", DefaultMistralDeployment)
              /\ result # NoResultsError
              /\ Len(all_results) = Len(image_paths)

\* every image of a two-image OCR request failed and the request still
\* returned a result envelope
C20_Witness ==
    /\ OcrRequestDone
    /\ Len(image_paths) = 2
    /\ \A k \in 1..2 : ocr_log[k] \in OcrFailures
    /\ DOMAIN result = {"analysis", "model"}

(***************************************************************************)
(* Properties of the schema compilation.                                   *)
(***************************************************************************)
\* the field kind the specification gives for a JSON-schema type name
KindOf(field_def) ==
    IF "type" \notin DOMAIN field_def THEN "str"
    ELSE IF field_def.type = "number" THEN "float"
    ELSE IF field_def.type = "integer" THEN "int"
    ELSE IF field_def.type = "boolean" THEN "bool"
    ELSE IF field_def.type = "array" THEN "list"
    ELSE IF field_def.type = "object" THEN "dict"
    ELSE "str"
ListedRequired(schema) ==
    IF "required" \in DOMAIN schema
    THEN {f \in FieldNames \cup {"ghost"} :
             \E k \in 1..Len(schema.required) : schema.required[k] = f}
    ELSE {}

\* C19: every entry of properties becomes one field whose kind is float for
\* number, int for integer, bool for boolean, list for array, dict for
\* object and str for a missing or unrecognized type; the field is
\* mandatory iff its name is listed in required; names in required that are
\* no property add no field; empty properties give a contract of no fields.
C19_SchemaCompilation ==
    (compiler_pc = "done" /\ output_schema # None
     /\ "properties" \in DOMAIN Get(output_schema)) =>
        LET schema == Get(output_schema)
            fields == Get(result_model)
        IN /\ result_model # None
           /\ DOMAIN fields = DOMAIN schema.properties
           /\ \A f \in DOMAIN fields :
                 /\ fields[f].type = KindOf(schema.properties[f])
                 /\ fields[f].required <=> f \in ListedRequired(schema)
           /\ schema.properties = EmptyDict => fields = EmptyDict

\* a schema with an integer field and a field without type, one of them
\* required together with a name that is no property, was compiled
C19_Witness ==
    /\ compiler_pc = "done"
    /\ output_schema =
          Some([properties |-> [x |-> [type |-> "integer"], y |-> EmptyDict],
                required |-> <<"ghost", "x">>])
    /\ result_model =
          Some([x |-> [type |-> "int", required |-> TRUE],
                y |-> [type |-> "str", required |-> FALSE]])

\* the exception reports the timeout of a network call
TimedOut(e) ==
    e.type = "ReadTimeout" \/ StartsWith(e.msg, <<"Timeout while accessing URL: ">>)
UrlTimeout(ref) == Exc("ValueError", <<"Timeout while accessing URL: ", ref.name>>)

C21_StandardPathReached ==
    /\ Returned
    /\ ~req.use_mistral
    /\ gather_exc # None
    /\ TimedOut(Get(gather_exc))
    /\ IsErrorEnvelope(result)

\* the OCR call of an image timed out and a later image was processed
C21_CallTimeoutReached ==
    /\ OcrRequestDone
    /\ Len(image_paths) = 2
    /\ ocr_log[1] = "call_timeout"

\* C22: in OCR mode no section has an empty body: a response without pages,
\* with an empty list of pages, or whose pages all have an empty markdown
\* gives the marker that no text was extracted from the reference.
C22_NoEmptySection ==
    /\ \A k \in 1..Len(all_results) :
          /\ Len(all_results[k]) > 3
          /\ SubSeq(all_results[k], 1, 3) = <<"=== ", image_paths[k].name, " ===\n">>
          /\ \A j \in 4..Len(all_results[k]) : all_results[k][j] # ""
    /\ \A k \in 1..Len(ocr_log) :
          ocr_log[k] = "no_text" =>
              /\ Len(all_results) >= k
              /\ all_results[k] = Section(image_paths[k], NoTextMarker(image_paths[k]))

\* an image whose response had no text has the marker in the combined text
C22_Witness ==
    /\ OcrRequestDone
    /\ \E k \in 1..Len(ocr_log) : ocr_log[k] = "no_text"
    /\ "analysis" \in DOMAIN result
    /\ Contains(result.analysis, <<"[No text extracted from ">>)

\* the request took the standard path and passed the input validation, the
\* Azure configuration check and the preparation of every image
AzureConfigured ==
    ~(/\ StartsWith(EffectiveName, AzurePrefix)
      /\ Absent("AZURE_OPENAI_ENDPOINT") \/ Absent("AZURE_OPENAI_API_KEY"))
PassedPreparations ==
    /\ ~req.use_mistral
    /\ ValidationPassed
    /\ AzureConfigured
    /\ tasks # <<>>
    /\ AllFinished
    /\ FailedTasks = {}
\* the agent could not be created: Agent(...) raised before agent.run
AgentCreationFailed == IsErrorEnvelope(result) /\ result.error_type = "UserError"

\* C24 as stated: a returned request called agent.run exactly once when it
\* passed validation, the configuration check and every preparation in the
\* standard path, and not at all otherwise.
C24_ModelCalledExactlyOnce ==
    Returned => Len(model_calls) = IF PassedPreparations THEN 1 ELSE 0

\* C24 (amended): agent.run is called at most once in a request, and only
\* after validation, the configuration check and every preparation of the
\* standard path passed, with the message built from them; a returned
\* request that passed them called it exactly once unless the creation of
\* the agent failed, in which case it was not called; a failed call is not
\* repeated.
C24_ModelCalledAtMostOnce ==
    /\ Len(model_calls) <= 1
    /\ model_calls # <<>> =>
          /\ PassedPreparations
          /\ model_calls[1] = message_parts
    /\ (Returned /\ PassedPreparations) =>
          (Len(model_calls) = 1 <=> ~AgentCreationFailed)
    /\ (Returned /\ IsErrorEnvelope(result) /\ result.error_type = "ModelHTTPError") =>
          Len(model_calls) = 1

\* the one call of agent.run failed and the request returned its failure
C24_Witness ==
    /\ Returned
    /\ PassedPreparations
    /\ IsErrorEnvelope(result)
    /\ result.error_type = "ModelHTTPError"
    /\ Len(model_calls) = 1

\* a request passed every preparation and returned without a call of
\* agent.run
C24_AgentCreationFailureReached ==
    /\ Returned
    /\ PassedPreparations
    /\ AgentCreationFailed
    /\ model_calls = <<>>

\* the positions of a history are strictly increasing
Increasing(h) == \A j \in 1..Len(h) : \A k \in 1..Len(h) : j < k => h[j] < h[k]
\* the network calls of the OCR loop that are not yet answered: the HEAD
\* requests and POSTs of images whose section is not recorded, less the HEAD
\* request that was answered when the POST of the same image was sent
OutstandingOcrCalls ==
    LET heads == {k \in 1..Len(head_requests) : head_requests[k] > Len(ocr_log)}
        posts == {k \in 1..Len(ocr_calls) : ocr_calls[k] > Len(ocr_log)}
        answered == {k \in heads : \E j \in posts : ocr_calls[j] = head_requests[k]}
    IN Cardinality(heads \ answered) + Cardinality(posts)

\* C25: the OCR loop is sequential.  The image being processed is the one
\* after the last recorded section; no HEAD request, file access or OCR call
\* was ever issued for a later image; at most one HEAD or OCR call is
\* outstanding, and it belongs to the image being processed.
C25_OcrSequential ==
    req.use_mistral =>
        /\ ocr_i = Len(ocr_log) + 1
        /\ Len(all_results) = Len(ocr_log)
        /\ tasks = <<>>
        /\ Increasing(head_requests) /\ Increasing(file_accesses) /\ Increasing(ocr_calls)
        /\ \A k \in 1..Len(head_requests) : head_requests[k] <= ocr_i
        /\ \A k \in 1..Len(file_accesses) : file_accesses[k] <= ocr_i
        /\ \A k \in 1..Len(ocr_calls) : ocr_calls[k] <= ocr_i
        /\ OutstandingOcrCalls <= 1
        /\ OutstandingOcrCalls = IF ocr_wait = "none" THEN 0 ELSE 1
        /\ ocr_wait = "head" => head_requests[Len(head_requests)] = ocr_i
        /\ ocr_wait = "post" => ocr_calls[Len(ocr_calls)] = ocr_i

\* the OCR call of the second image is outstanding, the section of the
\* first is recorded, and both images went through a HEAD request
C25_Witness ==
    /\ req.use_mistral
    /\ Len(image_paths) = 2
    /\ ocr_wait = "post"
    /\ ocr_i = 2
    /\ Len(all_results) = 1
    /\ head_requests = <<1, 2>>
    /\ ocr_calls = <<1, 2>>

\* the elements of a history
Range(h) == {h[k] : k \in 1..Len(h)}
\* the classes of an image whose document URL could not be built
NoDocumentClasses == {"prepare_failed", "head_timeout"}

\* C29: the OCR endpoint is called at most once for a reference and only
\* after its document URL was built: the positions posted are distinct and
\* are positions of the request, each was reached by the HEAD request (URL)
\* or the file access (local reference) of that position, and an image whose
\* resolution, decoding, SVG conversion or URL validation failed was never
\* posted.  Outside OCR mode the endpoint is not called.
C29_OcrCalledOncePerReference ==
    /\ Increasing(ocr_calls)
    /\ Len(ocr_calls) <= Len(image_paths)
    /\ Range(ocr_calls) \subseteq 1..Len(image_paths)
    /\ ocr_calls # <<>> => req.use_mistral
    /\ \A k \in Range(ocr_calls) :
          IF IsUrl(image_paths[k])
          THEN k \in Range(head_requests)
          ELSE k \in Range(file_accesses)
    /\ \A k \in 1..Len(ocr_log) :
          /\ ocr_log[k] \in NoDocumentClasses => k \notin Range(ocr_calls)
          /\ ocr_log[k] \notin NoDocumentClasses => k \in Range(ocr_calls)

\* the document URL of the first image could not be built, the second image
\* was posted, and the request returned
C29_Witness ==
    /\ OcrRequestDone
    /\ Len(image_paths) = 2
    /\ ocr_log[1] \in NoDocumentClasses
    /\ ocr_calls = <<2>>
    /\ "analysis" \in DOMAIN result

\* the failed preparation that finished first
FirstFailed ==
    completion[CHOOSE k \in 1..Len(completion) :
                   /\ completion[k] \in FailedTasks
                   /\ \A j \in 1..(k - 1) : completion[j] \notin FailedTasks]

\* C30: in the standard path, when preparations failed the envelope reports
\* one failure, that of the preparation that failed first in time, whatever
\* its position in the list and however many failed after it.
C30_FirstFailureInTimeReported ==
    (Returned /\ ~req.use_mistral /\ FailedTasks # {}) =>
        /\ gather_exc = Some(Get(tasks[FirstFailed].out).val)
        /\ result = FormatError(Get(tasks[FirstFailed].out).val, DEBUG_MODE)

\* two preparations failed with different errors before the request
\* returned; the second of the list failed first and is the one reported
C30_Witness ==
    /\ Returned
    /\ ~req.use_mistral
    /\ FailedTasks = {1, 2}
    /\ image_paths = <<UrlRef, UrlRef>>
    /\ completion = <<2, 1>>
    /\ Get(tasks[1].out).val.msg # Get(tasks[2].out).val.msg
    /\ result.error = Get(tasks[2].out).val.msg

\* the same two failures in the other order: the first of the list is the
\* one reported
C30_OtherOrderReached ==
    /\ Returned
    /\ ~req.use_mistral
    /\ FailedTasks = {1, 2}
    /\ image_paths = <<UrlRef, UrlRef>>
    /\ completion = <<1, 2>>
    /\ Get(tasks[1].out).val.msg # Get(tasks[2].out).val.msg
    /\ result.error = Get(tasks[1].out).val.msg

\* the preparations that are still suspended at their HEAD request
RunningTasks == {i \in 1..Len(tasks) : tasks[i].st \in {"new", "head"}}

\* C26: no preparation outlives its request: once the envelope is returned
\* no preparation is still running, also when the request returned early
\* because another preparation failed.
C26_NoPreparationOutlivesRequest == Returned => RunningTasks = {}

\* a preparation whose HEAD request was answered after the error envelope
\* of its request was returned produced a prepared image
C26_LatePreparationReached ==
    /\ Returned
    /\ IsErrorEnvelope(result)
    /\ Len(tasks) = 2
    /\ completion = <<2, 1>>
    /\ tasks[2].st = "failed"
    /\ tasks[1].st = "done"
    /\ result.error = Get(tasks[2].out).val.msg
    /\ Get(tasks[1].out).val = ImageUrl(image_paths[1])

\* the record of the logger carries the stack trace
HasTrace(record) == Contains(record, <<"Traceback: ">>)
\* the envelope was made by _format_error
FromFormatError == Returned /\ "debug_mode" \in DOMAIN result

\* C28: _format_error gives the traceback field and logs the full trace in
\* debug mode; outside debug mode the envelope has the compact message and
\* the type only, and the full stack trace is still written to the log.
C28_TraceAlwaysLogged ==
    FromFormatError =>
        /\ log # <<>>
        /\ HasTrace(log[Len(log)])
        /\ "traceback" \in DOMAIN result <=> DEBUG_MODE

\* outside debug mode a caught exception was logged as one compact line
C28_CompactRecordReached ==
    /\ FromFormatError
    /\ ~DEBUG_MODE
    /\ DOMAIN result = {"error", "error_type", "debug_mode"}
    /\ log = <<<<"Tool error: ", result.error_type, ": ">> \o result.error>>
    /\ ~HasTrace(log[1])

\* in debug mode the envelope has the traceback and the record has the trace
C28_DebugRecordReached ==
    /\ FromFormatError
    /\ DEBUG_MODE
    /\ "traceback" \in DOMAIN result
    /\ Len(log) = 1
    /\ HasTrace(log[1])

\* the Azure configuration check as it would go with the given environment
AzureCheckFails(env) ==
    AzureConfigMissing(EffectiveModel(req.model, ReadConfiguration(env).default_model),
                       ReadConfiguration(env).azure_endpoint,
                       ReadConfiguration(env).azure_api_key)

\* C27: the configuration of a request (endpoint, key, default model, OCR
\* deployment, debug flag) is the snapshot taken at startup: a change of the
\* process environment after startup changes no outcome of a later request.
C27_ConfigurationIsStartupSnapshot ==
    /\ pc # "start" => cfg = ReadConfiguration(startup_environ)
    /\ DEBUG_MODE = ImportDebugMode(startup_environ)
    /\ (Returned /\ ~req.use_mistral) =>
          (result = AzureNotConfiguredError <=> AzureCheckFails(startup_environ))
    /\ (Returned /\ req.use_mistral /\ "model" \in DOMAIN result) =>
          result.model = <<"mistral:">> \o ReadConfiguration(startup_environ).mistral_deployment

\* the key was set at startup and removed afterwards: the request that
\* would have passed the configuration check was rejected by it
C27_ChangedOutcomeReached ==
    /\ Returned
    /\ ~req.use_mistral
    /\ ~AzureCheckFails(startup_environ)
    /\ startup_environ["AZURE_OPENAI_API_KEY"] # None
    /\ environ["AZURE_OPENAI_API_KEY"] = None
    /\ result = AzureNotConfiguredError

\* the debug flag does not follow the environment: MCP_DEBUG was set after
\* startup and the envelope of a caught exception still has debug_mode false
C27_DebugFlagKeptReached ==
    /\ FromFormatError
    /\ startup_environ["MCP_DEBUG"] = None
    /\ environ["MCP_DEBUG"] # None
    /\ result.debug_mode = FALSE

BothReturned == core_envelope # NoEnvelope /\ tool_outcome # None

\* C23: the tool analyze_images of server.py returns, for every request,
\* the envelope analyze_images_impl returns for it; output_schema and
\* use_mistral are accepted and a relative reference is resolved with the
\* two-attempt fallback.
C23_ToolReturnsCoreEnvelope ==
    BothReturned => Get(tool_outcome) = Return(core_envelope)

\* a relative reference that exists only without its first component: the
\* core resolves it and returns the analysis, the tool returns
\* FileNotFoundError
C23_FallbackDivergenceReached ==
    /\ BothReturned
    /\ UnknownArguments(req) = {}
    /\ NormalizeImagePaths(req.image_paths) = <<LocalRef>>
    /\ world.disk.files = {Cwd \o StrippedPath(LocalRef.parts)}
    /\ "analysis" \in DOMAIN core_envelope
    /\ Get(tool_outcome).ok
    /\ IsErrorEnvelope(Get(tool_outcome).val)
    /\ Get(tool_outcome).val.error_type = "FileNotFoundError"

\* a request without the two arguments, with a URL or an existing file that
\* is no SVG: the two envelopes are the same
C23_SameEnvelopeReached ==
    /\ BothReturned
    /\ UnknownArguments(req) = {}
    /\ NormalizeImagePaths(req.image_paths) = <<LocalRef>>
    /\ "analysis" \in DOMAIN core_envelope
    /\ Get(tool_outcome) = Return(core_envelope)

\* output_schema is dropped by the host: the core returns data, the tool
\* returns analysis
C23_SchemaDivergenceReached ==
    /\ BothReturned
    /\ "data" \in DOMAIN core_envelope
    /\ Get(tool_outcome).ok
    /\ "analysis" \in DOMAIN Get(tool_outcome).val

\* the worlds a request of one reference can meet in the step-by-step form
StepWorlds ==
    [disk : [files : {{}, {Cwd \o LocalRef.parts, Cwd \o SvgRef.parts}}, links : {{}}],
     content : {"corrupt", "image"},
     head : HeadOutcomes,
     run : {None} \cup {Some(u) : u \in UsageReports},
     ocr : OcrResponses,
     host_drops_unknown : {TRUE}]

\* analyze_images_impl as a function and step by step give the same
\* envelopes: what a request of one reference returns step by step is what
\* the function returns in some world (the failures the function words
\* differently or does not draw, a missing file, a directory and a failed
\* agent creation, are left out)
CoreCallAgreesWithSteps ==
    (/\ Returned
     /\ req.image_paths.is_str
     /\ ~(IsErrorEnvelope(result)
          /\ result.error_type \in {"FileNotFoundError", "UserError"})
     /\ ~(IsErrorEnvelope(result) /\ result.error # <<>>
          /\ result.error[1] = "Path is not a file: ")
     /\ ~(req.use_mistral /\ \E k \in 1..Len(ocr_log) : ocr_log[k] = "prepare_failed"))
    => \E w \in StepWorlds : result = AnalyzeImagesImpl(req, environ, DEBUG_MODE, w)

====
